---- MODULE Spec2Model ----
(***************************************************************************)
(* The GLB (binary glTF) transforms of the TestModel repository:           *)
(*   stripEmbeddedTextures  (src/utils/glbPreprocess.ts)                   *)
(*   preprocessGLB          (utils/blobPolyfill, data-URI inlining)        *)
(*   sparse_to_dense.js     (the densify script)                           *)
(* A buffer is a sequence of bytes (0..255); offsets are 0-based as in the *)
(* source, so byte offset k of buffer b is b[k + 1].  JSON text is the     *)
(* ASCII text itself, parsed and written character by character.           *)
(***************************************************************************)
EXTENDS Integers, Sequences, FiniteSets, TLC

VARIABLES
  glbBuffer,   \* the caller's input buffer (ArrayBuffer / file contents)
  op,          \* the transform that ran on glbBuffer: "none" before any
  out,         \* what the transform did: returned buffer or thrown error
  morphTargetDictionary,  \* categorizeMorphTargets: the dictionary passed in
  categories,             \* useMorphTargets: the categories state (sliders)
  morphState,             \* useMorphTargets: the morphState state
  meshesRef,              \* useMorphTargets: meshesRef.current
  morphTargetInfluences,  \* mesh.morphTargetInfluences of each morphed mesh
  parent,                 \* object.parent of each object of the scene graph
  originalIndexRef,       \* ModelViewer: originalIndexRef.current
  indexArray,             \* the body geometry's index array
  drawRange,              \* the body geometry's draw range, <<start, count>>
  equippedMeshNamesRef,   \* ModelViewer: equippedMeshNamesRef.current
  modelRef,               \* ModelViewer: modelRef.current
  clothingItems,          \* App: the clothingItems state, ModelViewer's prop
  modelLoadItems,         \* clothingItems as the running loadGLBModel closed over it
  loadedClothingRef,      \* ModelViewer: loadedClothingRef.current
  clothingGroupRef,       \* ModelViewer: clothingGroupRef.current
  loads,                  \* the calls of loadClothingGLBs: their local variables
  onClothingMeshesLoaded, \* the morphState closed over by the callback that
                          \* loadClothingGLBs holds
  currentAnimation,       \* App: the currentAnimation state (selected id)
  animationDef,           \* App: the animationDef state, ModelViewer's prop
  downloads,              \* handleAnimationSelect calls awaiting downloadAsync
  fetches,                \* animation effect runs awaiting fetch and parse
  currentAnimIdRef,       \* ModelViewer: currentAnimIdRef.current
  currentActionRef,       \* ModelViewer: currentActionRef.current (its clip)
  animClipsRef            \* ModelViewer: the ids cached in animClipsRef.current

glbVars == <<glbBuffer, op, out>>

sliderVars == <<morphTargetDictionary, categories>>

morphVars == <<morphState, meshesRef, morphTargetInfluences, parent>>

maskVars == <<originalIndexRef, indexArray, drawRange, equippedMeshNamesRef>>

clothingVars ==
  <<modelRef, clothingItems, modelLoadItems, loadedClothingRef, clothingGroupRef,
    loads, onClothingMeshesLoaded>>

animVars ==
  <<currentAnimation, animationDef, downloads, fetches, currentAnimIdRef,
    currentActionRef, animClipsRef>>

viewerVars == <<sliderVars, morphVars, maskVars, clothingVars, animVars>>

vars == <<glbVars, viewerVars>>

(***************************************************************************)
(* JavaScript values as they come out of JSON.parse.  An object is the     *)
(* sequence of its <<key, value>> members in insertion order, which is the *)
(* order JSON.stringify writes them in.  Strings are sequences of          *)
(* character codes.                                                        *)
(***************************************************************************)
Undefined == <<"undefined">>
JNull == <<"null">>
JNum(n) == <<"num", n>>
JStr(s) == <<"str", s>>
JArr(xs) == <<"arr", xs>>
JObj(ms) == <<"obj", ms>>

IsNum(v) == v[1] = "num"
IsStr(v) == v[1] = "str"
IsArr(v) == v[1] = "arr"
IsObj(v) == v[1] = "obj"

\* Index of key k among the members ms, 0 when absent.
RECURSIVE MemberIndex(_, _, _)
MemberIndex(ms, k, i) ==
  IF i > Len(ms) THEN 0
  ELSE IF ms[i][1] = k THEN i
  ELSE MemberIndex(ms, k, i + 1)

\* o.k : undefined when o has no own member k (or is not an object).
Get(o, k) ==
  IF ~IsObj(o) THEN Undefined
  ELSE LET i == MemberIndex(o[2], k, 1) IN
       IF i = 0 THEN Undefined ELSE o[2][i][2]

\* o.k = v : an existing member keeps its place, a new one goes last.
SetMember(ms, k, v) ==
  LET i == MemberIndex(ms, k, 1) IN
  IF i = 0 THEN Append(ms, <<k, v>>)
  ELSE [ms EXCEPT ![i] = <<k, v>>]

Put(o, k, v) == JObj(SetMember(o[2], k, v))

\* delete o.k
Delete(o, k) ==
  LET i == MemberIndex(o[2], k, 1) IN
  IF i = 0 THEN o
  ELSE JObj(SubSeq(o[2], 1, i - 1) \o SubSeq(o[2], i + 1, Len(o[2])))

\* JavaScript truthiness of a parsed value (!v is its negation).
Truthy(v) ==
  CASE v[1] = "undefined" -> FALSE
    [] v[1] = "null" -> FALSE
    [] v[1] = "num" -> v[2] # 0
    [] v[1] = "str" -> Len(v[2]) > 0
    [] OTHER -> TRUE

\* Structural equality of two values, the order of object keys aside.
RECURSIVE DeepEqual(_, _)
DeepEqual(a, b) ==
  IF a[1] # b[1] THEN FALSE
  ELSE IF IsObj(a) THEN
    /\ Len(a[2]) = Len(b[2])
    /\ \A i \in 1..Len(a[2]) :
         LET j == MemberIndex(b[2], a[2][i][1], 1) IN
         j # 0 /\ DeepEqual(a[2][i][2], b[2][j][2])
  ELSE IF IsArr(a) THEN
    /\ Len(a[2]) = Len(b[2])
    /\ \A i \in 1..Len(a[2]) : DeepEqual(a[2][i], b[2][i])
  ELSE a = b

(***************************************************************************)
(* TextDecoder / TextEncoder (UTF-8).  ASCII bytes are their own code      *)
(* points; EF BF BD is the encoding of U+FFFD; the byte 0xFF is never      *)
(* valid UTF-8 and decodes to U+FFFD.  The texts hold no other byte above  *)
(* 0x7F.                                                                   *)
(***************************************************************************)
\* Whether bytes i, i+1, i+2 are EF BF BD.
IsReplacementAt(bytes, i) ==
  /\ i >= 1
  /\ i + 2 <= Len(bytes)
  /\ bytes[i] = 239 /\ bytes[i + 1] = 191 /\ bytes[i + 2] = 189

IsCodePoint(c) == c >= 0

\* -1 marks the continuation bytes of a sequence already decoded.
TextDecode(bytes) ==
  SelectSeq([i \in 1..Len(bytes) |->
               IF bytes[i] < 128 THEN bytes[i]
               ELSE IF IsReplacementAt(bytes, i - 1) \/ IsReplacementAt(bytes, i - 2)
               THEN -1
               ELSE 65533],
            IsCodePoint)

RECURSIVE EncodeRange(_, _, _)
EncodeRange(s, lo, hi) ==
  IF lo > hi THEN <<>>
  ELSE IF lo = hi THEN (IF s[lo] < 128 THEN <<s[lo]>> ELSE <<239, 191, 189>>)
  ELSE LET mid == (lo + hi) \div 2 IN
       EncodeRange(s, lo, mid) \o EncodeRange(s, mid + 1, hi)

TextEncode(s) == EncodeRange(s, 1, Len(s))

(***************************************************************************)
(* JSON.parse over the characters of the text.  Covered: objects, arrays,  *)
(* strings without escapes, non-negative integers, null, and whitespace    *)
(* (the grammar the input documents are written in).                       *)
(* A result is [ok, v, p]: the value and the position after it.            *)
(***************************************************************************)
IsWs(c) == c \in {32, 9, 10, 13}
IsDigit(c) == c >= 48 /\ c <= 57

RECURSIVE SkipWs(_, _)
SkipWs(t, p) ==
  IF p <= Len(t) /\ IsWs(t[p]) THEN SkipWs(t, p + 1) ELSE p

RECURSIVE ScanDigits(_, _, _)
ScanDigits(t, p, acc) ==
  IF p <= Len(t) /\ IsDigit(t[p])
  THEN ScanDigits(t, p + 1, acc * 10 + (t[p] - 48))
  ELSE <<acc, p>>

\* Position of the quote closing a string whose first character is at p;
\* 0 when the string is unterminated or holds a control character or an
\* escape.
RECURSIVE ScanString(_, _)
ScanString(t, p) ==
  IF p > Len(t) THEN 0
  ELSE IF t[p] = 34 THEN p
  ELSE IF t[p] < 32 \/ t[p] = 92 THEN 0
  ELSE ScanString(t, p + 1)

ParseFail == [ok |-> FALSE, v |-> Undefined, p |-> 0]

RECURSIVE ParseValue(_, _)
RECURSIVE ParseMembers(_, _, _)
RECURSIVE ParseElements(_, _, _)

ParseValue(t, p0) ==
  LET p == SkipWs(t, p0) IN
  IF p > Len(t) THEN ParseFail
  ELSE IF t[p] = 123 THEN
    LET q == SkipWs(t, p + 1) IN
    IF q <= Len(t) /\ t[q] = 125
    THEN [ok |-> TRUE, v |-> JObj(<<>>), p |-> q + 1]
    ELSE ParseMembers(t, q, <<>>)
  ELSE IF t[p] = 91 THEN
    LET q == SkipWs(t, p + 1) IN
    IF q <= Len(t) /\ t[q] = 93
    THEN [ok |-> TRUE, v |-> JArr(<<>>), p |-> q + 1]
    ELSE ParseElements(t, q, <<>>)
  ELSE IF t[p] = 34 THEN
    LET e == ScanString(t, p + 1) IN
    IF e = 0 THEN ParseFail
    ELSE [ok |-> TRUE, v |-> JStr(SubSeq(t, p + 1, e - 1)), p |-> e + 1]
  ELSE IF IsDigit(t[p]) THEN
    LET d == ScanDigits(t, p, 0) IN
    IF t[p] = 48 /\ d[2] > p + 1 THEN ParseFail
    ELSE [ok |-> TRUE, v |-> JNum(d[1]), p |-> d[2]]
  ELSE IF p + 3 <= Len(t) /\ SubSeq(t, p, p + 3) = <<110, 117, 108, 108>>
    THEN [ok |-> TRUE, v |-> JNull, p |-> p + 4]
  ELSE ParseFail

ParseMembers(t, p, ms) ==
  IF p > Len(t) \/ t[p] # 34 THEN ParseFail
  ELSE
    LET e == ScanString(t, p + 1) IN
    IF e = 0 THEN ParseFail
    ELSE
      LET c == SkipWs(t, e + 1) IN
      IF c > Len(t) \/ t[c] # 58 THEN ParseFail
      ELSE
        LET r == ParseValue(t, c + 1) IN
        IF ~r.ok THEN ParseFail
        ELSE
          LET ms2 == SetMember(ms, SubSeq(t, p + 1, e - 1), r.v)
              d == SkipWs(t, r.p)
          IN
          IF d > Len(t) THEN ParseFail
          ELSE IF t[d] = 125 THEN [ok |-> TRUE, v |-> JObj(ms2), p |-> d + 1]
          ELSE IF t[d] = 44 THEN ParseMembers(t, SkipWs(t, d + 1), ms2)
          ELSE ParseFail

ParseElements(t, p, xs) ==
  LET r == ParseValue(t, p) IN
  IF ~r.ok THEN ParseFail
  ELSE
    LET xs2 == Append(xs, r.v)
        d == SkipWs(t, r.p)
    IN
    IF d > Len(t) THEN ParseFail
    ELSE IF t[d] = 93 THEN [ok |-> TRUE, v |-> JArr(xs2), p |-> d + 1]
    ELSE IF t[d] = 44 THEN ParseElements(t, d + 1, xs2)
    ELSE ParseFail

\* JSON.parse(text): one value, then only whitespace; ok = FALSE stands
\* for the SyntaxError it throws.
JSONParse(t) ==
  LET r == ParseValue(t, 1) IN
  IF r.ok /\ SkipWs(t, r.p) > Len(t) THEN [ok |-> TRUE, v |-> r.v]
  ELSE [ok |-> FALSE, v |-> Undefined]

(***************************************************************************)
(* JSON.stringify: no whitespace, members in insertion order.              *)
(***************************************************************************)
RECURSIVE Digits(_)
Digits(n) ==
  IF n < 10 THEN <<48 + n>> ELSE Append(Digits(n \div 10), 48 + (n % 10))

RECURSIVE JSONStringify(_)
RECURSIVE StringifyMembers(_, _)
RECURSIVE StringifyElements(_, _)

JSONStringify(v) ==
  CASE v[1] = "num" -> Digits(v[2])
    [] v[1] = "str" -> <<34>> \o v[2] \o <<34>>
    [] v[1] = "null" -> <<110, 117, 108, 108>>
    [] v[1] = "arr" -> <<91>> \o StringifyElements(v[2], 1) \o <<93>>
    [] v[1] = "obj" -> <<123>> \o StringifyMembers(v[2], 1) \o <<125>>

StringifyMembers(ms, i) ==
  IF i > Len(ms) THEN <<>>
  ELSE (IF i > 1 THEN <<44>> ELSE <<>>)
       \o <<34>> \o ms[i][1] \o <<34, 58>> \o JSONStringify(ms[i][2])
       \o StringifyMembers(ms, i + 1)

StringifyElements(xs, i) ==
  IF i > Len(xs) THEN <<>>
  ELSE (IF i > 1 THEN <<44>> ELSE <<>>)
       \o JSONStringify(xs[i])
       \o StringifyElements(xs, i + 1)

(***************************************************************************)
(* Bytes.  DataView.getUint32(off, true) / Buffer.readUInt32LE(off) throw  *)
(* a RangeError unless off + 4 <= length; InRange is that test.            *)
(***************************************************************************)
InRange(b, off, n) == off >= 0 /\ n >= 0 /\ off + n <= Len(b)

getUint32(b, off) ==
  b[off + 1] + 256 * b[off + 2] + 65536 * b[off + 3] + 16777216 * b[off + 4]

\* The four bytes setUint32(pos, n, true) / writeUInt32LE store.
setUint32(n) ==
  <<n % 256, (n \div 256) % 256, (n \div 65536) % 256, (n \div 16777216) % 256>>

\* b.slice / subarray(from, to) on 0-based offsets, clamped to the buffer.
Min(a, b) == IF a < b THEN a ELSE b
Max(a, b) == IF a > b THEN a ELSE b
subarray(b, from, to) ==
  LET f == Min(Max(from, 0), Len(b))
      e == Min(Max(to, 0), Len(b))
  IN IF e <= f THEN <<>> ELSE SubSeq(b, f + 1, e)

Fill(byte, n) == [i \in 1..n |-> byte]

GLB_MAGIC == 1179937895      \* 0x46546C67 "glTF"
GLB_VERSION == 2
CHUNK_JSON == 1313821514     \* 0x4E4F534A "JSON"
CHUNK_BIN == 5130562         \* 0x004E4942 "BIN\0"
HEADER_SIZE == 12

NoBin == [some |-> FALSE, data |-> <<>>]
SomeBin(d) == [some |-> TRUE, data |-> d]

(***************************************************************************)
(* Property names and string constants of the source, as character codes.  *)
(***************************************************************************)
K_images == <<105,109,97,103,101,115>>
K_textures == <<116,101,120,116,117,114,101,115>>
K_materials == <<109,97,116,101,114,105,97,108,115>>
K_bufferViews == <<98,117,102,102,101,114,86,105,101,119,115>>
K_buffers == <<98,117,102,102,101,114,115>>
K_accessors == <<97,99,99,101,115,115,111,114,115>>
K_bufferView == <<98,117,102,102,101,114,86,105,101,119>>
K_mimeType == <<109,105,109,101,84,121,112,101>>
K_uri == <<117,114,105>>
K_name == <<110,97,109,101>>
K_source == <<115,111,117,114,99,101>>
K_index == <<105,110,100,101,120>>
K_pbrMetallicRoughness ==
  <<112,98,114,77,101,116,97,108,108,105,99,82,111,117,103,104,110,101,115,115>>
K_baseColorTexture == <<98,97,115,101,67,111,108,111,114,84,101,120,116,117,114,101>>
K_metallicRoughnessTexture ==
  <<109,101,116,97,108,108,105,99,82,111,117,103,104,110,101,115,115,84,101,120,
    116,117,114,101>>
K_normalTexture == <<110,111,114,109,97,108,84,101,120,116,117,114,101>>
K_occlusionTexture == <<111,99,99,108,117,115,105,111,110,84,101,120,116,117,114,101>>
K_emissiveTexture == <<101,109,105,115,115,105,118,101,84,101,120,116,117,114,101>>
K_buffer == <<98,117,102,102,101,114>>
K_byteOffset == <<98,121,116,101,79,102,102,115,101,116>>
K_byteLength == <<98,121,116,101,76,101,110,103,116,104>>
K_count == <<99,111,117,110,116>>
K_type == <<116,121,112,101>>
K_sparse == <<115,112,97,114,115,101>>
K_indices == <<105,110,100,105,99,101,115>>
K_values == <<118,97,108,117,101,115>>
K_componentType == <<99,111,109,112,111,110,101,110,116,84,121,112,101>>
S_VEC3 == <<86,69,67,51>>
S_VEC2 == <<86,69,67,50>>
S_SCALAR == <<83,67,65,76,65,82>>
S_stripped == <<115,116,114,105,112,112,101,100,95>>      \* "stripped_"
S_data == <<100,97,116,97,58>>                            \* "data:"
S_base64 == <<59,98,97,115,101,54,52,44>>                 \* ";base64,"

(***************************************************************************)
(* Header and chunk parsing of stripEmbeddedTextures (lines 55-80); the    *)
(* same statements open preprocessGLB (lines 54-92).  st is "ok", "same"   *)
(* (the function returns glbBuffer) or "throw" (a RangeError of DataView / *)
(* Uint8Array, or the SyntaxError of JSON.parse).  reads counts the chunk  *)
(* headers whose length and type words were decoded.                       *)
(***************************************************************************)
ParseEnd(st, reads) ==
  [st |-> st, reads |-> reads, json |-> Undefined, binChunk |-> NoBin]
ParseOk(reads, json, binChunk) ==
  [st |-> "ok", reads |-> reads, json |-> json, binChunk |-> binChunk]

\* A search that first rounds the offset up to a multiple of 4 (not the
\* source's).
FindBinChunkRounded(glb, offset, json) ==
  LET at == ((offset + 3) \div 4) * 4 IN
  IF ~(at < Len(glb)) THEN ParseOk(1, json, NoBin)
  ELSE IF ~InRange(glb, at, 4) THEN ParseEnd("throw", 1)
  ELSE IF ~InRange(glb, at + 4, 4) THEN ParseEnd("throw", 1)
  ELSE IF getUint32(glb, at + 4) # CHUNK_BIN THEN ParseOk(2, json, NoBin)
  ELSE IF ~InRange(glb, at + 8, getUint32(glb, at)) THEN ParseEnd("throw", 2)
  ELSE ParseOk(2, json, SomeBin(subarray(glb, at + 8, at + 8 + getUint32(glb, at))))

\* Lines 72-80: the chunk after the JSON chunk, at offset (not rounded).
FindBinChunk(glb, offset, json) ==
  IF ~(offset < Len(glb)) THEN ParseOk(1, json, NoBin)
  ELSE IF ~InRange(glb, offset, 4) THEN ParseEnd("throw", 1)
  ELSE IF ~InRange(glb, offset + 4, 4) THEN ParseEnd("throw", 1)
  ELSE IF getUint32(glb, offset + 4) # CHUNK_BIN THEN ParseOk(2, json, NoBin)
  ELSE IF ~InRange(glb, offset + 8, getUint32(glb, offset)) THEN ParseEnd("throw", 2)
  ELSE ParseOk(2, json,
               SomeBin(subarray(glb, offset + 8, offset + 8 + getUint32(glb, offset))))

\* Lines 69-70: the parsed JSON, then on to the next chunk.
AfterJSON(glb, offset, parsed) ==
  IF ~parsed.ok THEN ParseEnd("throw", 1)
  ELSE FindBinChunk(glb, offset, parsed.v)

ParseGLB(glb) ==
  IF ~InRange(glb, 0, 4) THEN ParseEnd("throw", 0)
  ELSE IF getUint32(glb, 0) # GLB_MAGIC THEN ParseEnd("same", 0)
  ELSE IF ~InRange(glb, 4, 4) THEN ParseEnd("throw", 0)
  ELSE IF getUint32(glb, 4) # GLB_VERSION THEN ParseEnd("same", 0)
  ELSE IF ~InRange(glb, HEADER_SIZE, 4) THEN ParseEnd("throw", 0)
  ELSE IF ~InRange(glb, HEADER_SIZE + 4, 4) THEN ParseEnd("throw", 0)
  ELSE IF getUint32(glb, HEADER_SIZE + 4) # CHUNK_JSON THEN ParseEnd("same", 1)
  ELSE
    LET jsonChunkLength == getUint32(glb, HEADER_SIZE)
        offset == HEADER_SIZE + 8 + jsonChunkLength
    IN
    IF ~InRange(glb, HEADER_SIZE + 8, jsonChunkLength) THEN ParseEnd("throw", 1)
    ELSE AfterJSON(glb, offset,
                   JSONParse(TextDecode(subarray(glb, HEADER_SIZE + 8, offset))))

(***************************************************************************)
(* Reassembly (stripEmbeddedTextures lines 139-189): the JSON text padded  *)
(* with spaces, the binary chunk padded with zeros, the header with the    *)
(* total length.  Without a binary chunk only header + JSON are written.   *)
(***************************************************************************)
\* A rule that pads an aligned length too, by a whole word (not the source's).
PaddingWholeWord(length) == 4 - (length % 4)

Padding(length) == (4 - (length % 4)) % 4

\* Lines 142-189, newJsonBytes being the encoded JSON text.
Assemble(newJsonBytes, binChunk) ==
  LET jsonPadding == Padding(Len(newJsonBytes))
      newJsonChunkLength == Len(newJsonBytes) + jsonPadding
      binPadding == Padding(Len(binChunk.data))
      newBinChunkLength == Len(binChunk.data) + binPadding
  IN
  IF ~binChunk.some THEN
    setUint32(GLB_MAGIC) \o setUint32(GLB_VERSION)
      \o setUint32(HEADER_SIZE + 8 + newJsonChunkLength)
      \o setUint32(newJsonChunkLength) \o setUint32(CHUNK_JSON)
      \o newJsonBytes \o Fill(32, jsonPadding)
  ELSE
    setUint32(GLB_MAGIC) \o setUint32(GLB_VERSION)
      \o setUint32(HEADER_SIZE + 8 + newJsonChunkLength + 8 + newBinChunkLength)
      \o setUint32(newJsonChunkLength) \o setUint32(CHUNK_JSON)
      \o newJsonBytes \o Fill(32, jsonPadding)
      \o setUint32(newBinChunkLength) \o setUint32(CHUNK_BIN)
      \o binChunk.data \o Fill(0, binPadding)

\* Lines 140-141, then the assembly.
Serialize(json, binChunk) == Assemble(TextEncode(JSONStringify(json)), binChunk)

(***************************************************************************)
(* What a transform did.  kind is "same" (it returned glbBuffer itself),   *)
(* "new" (it returned a newly assembled container) or "throw".  For "new", *)
(* json and binChunk are the working document and the binary chunk handed  *)
(* to the reassembly.  reads is the number of chunk headers decoded.       *)
(***************************************************************************)
Same(glb, reads) ==
  [kind |-> "same", buf |-> glb, json |-> Undefined, binChunk |-> NoBin,
   reads |-> reads]
Thrown(reads) ==
  [kind |-> "throw", buf |-> <<>>, json |-> Undefined, binChunk |-> NoBin,
   reads |-> reads]
New(buf, json, binChunk, reads) ==
  [kind |-> "new", buf |-> buf, json |-> json, binChunk |-> binChunk,
   reads |-> reads]

\* The outcome of a document step: st is "ok", "same" or "throw".
Step(st, json) == [st |-> st, json |-> json]

IsUndefined(v) == v[1] = "undefined"
IsNullish(v) == v[1] = "undefined" \/ v[1] = "null"

\* o?.k
OptGet(o, k) == IF IsNullish(o) THEN Undefined ELSE Get(o, k)

\* Set<number>.has(v)
SetHas(set, v) == IsNum(v) /\ v[2] \in set

\* if (x) x.forEach(...) / for (const e of x) where every element is
\* dereferenced: a TypeError unless x is an array without null elements.
Iterable(x) == IsArr(x) /\ \A i \in 1..Len(x[2]) : ~IsNullish(x[2][i])

(***************************************************************************)
(* stripEmbeddedTextures (src/utils/glbPreprocess.ts).  Array indices are  *)
(* the source's 0-based ones; element i of an array xs is xs[2][i + 1].    *)
(***************************************************************************)
\* Lines 86-90: img.bufferView !== undefined && !img.uri
IsEmbedded(img) == ~IsUndefined(Get(img, K_bufferView)) /\ ~Truthy(Get(img, K_uri))

EmbeddedImageIndices(images) ==
  {i \in 0..(Len(images[2]) - 1) : IsEmbedded(images[2][i + 1])}

\* Lines 95-102
EmbeddedTextureIndices(textures, embeddedImageIndices) ==
  IF ~Truthy(textures) THEN {}
  ELSE {i \in 0..(Len(textures[2]) - 1) :
          SetHas(embeddedImageIndices, Get(textures[2][i + 1], K_source))}

\* The test of lines 107-108, 111-112, 115-116, 119-120, 123-124
SlotHits(texInfo, embeddedTextureIndices) ==
  /\ ~IsUndefined(OptGet(texInfo, K_index))
  /\ SetHas(embeddedTextureIndices, OptGet(texInfo, K_index))

\* Lines 107-114: a slot under mat.pbrMetallicRoughness
StripPbrSlot(mat, slot, embeddedTextureIndices) ==
  IF SlotHits(OptGet(Get(mat, K_pbrMetallicRoughness), slot), embeddedTextureIndices)
  THEN Put(mat, K_pbrMetallicRoughness,
           Delete(Get(mat, K_pbrMetallicRoughness), slot))
  ELSE mat

\* Lines 115-126 as they would be without the membership test: every slot
\* that has an index goes.
StripSlotWithIndex(mat, slot, embeddedTextureIndices) ==
  IF ~IsUndefined(OptGet(Get(mat, slot), K_index))
  THEN Delete(mat, slot)
  ELSE mat

\* Lines 115-126: a slot of the material itself
StripSlot(mat, slot, embeddedTextureIndices) ==
  IF SlotHits(Get(mat, slot), embeddedTextureIndices)
  THEN Delete(mat, slot)
  ELSE mat

\* Four of the five slots, emissiveTexture left alone (not the source's).
StripMaterialButEmissive(mat, tex) ==
  StripSlot(
    StripSlot(
      StripPbrSlot(
        StripPbrSlot(mat, K_baseColorTexture, tex),
        K_metallicRoughnessTexture, tex),
      K_normalTexture, tex),
    K_occlusionTexture, tex)

\* Lines 106-127: the five slots of one material, in the source's order
StripMaterial(mat, tex) ==
  StripSlot(
    StripSlot(
      StripSlot(
        StripPbrSlot(
          StripPbrSlot(mat, K_baseColorTexture, tex),
          K_metallicRoughnessTexture, tex),
        K_normalTexture, tex),
      K_occlusionTexture, tex),
    K_emissiveTexture, tex)

StripMaterials(json, materials, tex) ==
  IF ~Truthy(materials) THEN json
  ELSE Put(json, K_materials,
           JArr([m \in 1..Len(materials[2]) |-> StripMaterial(materials[2][m], tex)]))

\* Line 132: json.images[i] = { name: `stripped_${i}` }
Placeholder(i) == JObj(<< <<K_name, JStr(S_stripped \o Digits(i))>> >>)

\* Lines 130-133 as they would be if they renamed the image in place.
ReplaceImagesInPlace(json, images, embeddedImageIndices) ==
  Put(json, K_images,
      JArr([i \in 1..Len(images[2]) |->
              IF (i - 1) \in embeddedImageIndices
              THEN Put(images[2][i], K_name, JStr(S_stripped \o Digits(i - 1)))
              ELSE images[2][i]]))

\* Lines 130-133
ReplaceImages(json, images, embeddedImageIndices) ==
  Put(json, K_images,
      JArr([i \in 1..Len(images[2]) |->
              IF (i - 1) \in embeddedImageIndices THEN Placeholder(i - 1)
              ELSE images[2][i]]))

\* Lines 92-133, the embedded images known.
StripEmbedded(json, images, textures, materials, embeddedImageIndices) ==
  IF embeddedImageIndices = {} THEN Step("same", json)
  ELSE IF Truthy(textures) /\ ~Iterable(textures) THEN Step("throw", json)
  ELSE IF Truthy(materials) /\ ~Iterable(materials) THEN Step("throw", json)
  ELSE Step("ok",
            ReplaceImages(
              StripMaterials(json, materials,
                             EmbeddedTextureIndices(textures, embeddedImageIndices)),
              images, embeddedImageIndices))

\* Lines 82-90
StripImages(json, images, textures, materials) ==
  IF IsNullish(json) THEN Step("throw", json)
  ELSE IF ~Truthy(images) THEN Step("same", json)
  ELSE IF IsArr(images) /\ Len(images[2]) = 0 THEN Step("same", json)
  ELSE IF ~Iterable(images) THEN Step("throw", json)
  ELSE StripEmbedded(json, images, textures, materials, EmbeddedImageIndices(images))

\* Lines 82-133 on the parsed document: st is "same" when the function
\* returns glbBuffer, "throw" on a TypeError.
StripDocument(json) ==
  StripImages(json, Get(json, K_images), Get(json, K_textures), Get(json, K_materials))

StripFinish(glb, parsed, d) ==
  IF d.st = "throw" THEN Thrown(parsed.reads)
  ELSE IF d.st = "same" THEN Same(glb, parsed.reads)
  ELSE New(Serialize(d.json, parsed.binChunk), d.json, parsed.binChunk, parsed.reads)

StripParsed(glb, parsed) ==
  IF parsed.st = "throw" THEN Thrown(parsed.reads)
  ELSE IF parsed.st = "same" THEN Same(glb, parsed.reads)
  ELSE StripFinish(glb, parsed, StripDocument(parsed.json))

stripEmbeddedTextures(glb) == StripParsed(glb, ParseGLB(glb))

(***************************************************************************)
(* preprocessGLB (utils/blobPolyfill): embedded images become data URIs.   *)
(***************************************************************************)
chunkSize == 8192

\* btoa: standard base64 with padding, as character codes.
Base64Char(n) ==
  IF n < 26 THEN 65 + n
  ELSE IF n < 52 THEN 97 + (n - 26)
  ELSE IF n < 62 THEN 48 + (n - 52)
  ELSE IF n = 62 THEN 43
  ELSE 47

RECURSIVE btoa(_)
btoa(binary) ==
  IF Len(binary) = 0 THEN <<>>
  ELSE IF Len(binary) = 1 THEN
    <<Base64Char(binary[1] \div 4), Base64Char((binary[1] % 4) * 16), 61, 61>>
  ELSE IF Len(binary) = 2 THEN
    <<Base64Char(binary[1] \div 4),
      Base64Char((binary[1] % 4) * 16 + binary[2] \div 16),
      Base64Char((binary[2] % 16) * 4), 61>>
  ELSE
    <<Base64Char(binary[1] \div 4),
      Base64Char((binary[1] % 4) * 16 + binary[2] \div 16),
      Base64Char((binary[2] % 16) * 4 + binary[3] \div 64),
      Base64Char(binary[3] % 64)>>
    \o btoa(SubSeq(binary, 4, Len(binary)))

\* Lines 15-23: the binary string, accumulated chunkSize bytes at a time.
RECURSIVE BinaryString(_, _)
BinaryString(data, i) ==
  IF ~(i < Len(data)) THEN <<>>
  ELSE subarray(data, i, Min(i + chunkSize, Len(data)))
       \o BinaryString(data, i + chunkSize)

uint8ToBase64(data) == btoa(BinaryString(data, 0))

\* xs[i] for a parsed index value i: undefined unless xs is an array and i
\* a number inside it.
ArrayAt(xs, i) ==
  IF IsArr(xs) /\ IsNum(i) /\ i[2] < Len(xs[2]) THEN xs[2][i[2] + 1]
  ELSE Undefined

\* (x || 0) for a number or a missing field
OrZero(v) == IF Truthy(v) THEN v[2] ELSE 0

\* Line 102: image.bufferView !== undefined && image.mimeType
IsConvertible(image) ==
  ~IsUndefined(Get(image, K_bufferView)) /\ Truthy(Get(image, K_mimeType))

\* Lines 104-105: binChunk.subarray(start, start + bv.byteLength);
\* start + undefined is NaN, which subarray takes as 0.
ImageData(bv, binChunk) ==
  subarray(binChunk, OrZero(Get(bv, K_byteOffset)),
           IF IsNum(Get(bv, K_byteLength))
           THEN OrZero(Get(bv, K_byteOffset)) + Get(bv, K_byteLength)[2]
           ELSE 0)

\* Lines 106-107
DataURI(mimeType, imageData) ==
  S_data \o mimeType[2] \o S_base64 \o uint8ToBase64(imageData)

\* Lines 102-110 for one image, without the delete of line 109.
ConvertImageKeepingBufferView(image, bufferViews, binChunk) ==
  IF IsConvertible(image)
  THEN Put(image, K_uri,
           JStr(DataURI(Get(image, K_mimeType),
                        ImageData(ArrayAt(bufferViews, Get(image, K_bufferView)),
                                  binChunk))))
  ELSE image

\* Lines 102-110 for one image, as they would be if the conversion also
\* dropped the mimeType.
ConvertImageDroppingMimeType(image, bufferViews, binChunk) ==
  IF IsConvertible(image)
  THEN Delete(Delete(Put(image, K_uri,
                         JStr(DataURI(Get(image, K_mimeType),
                                      ImageData(ArrayAt(bufferViews,
                                                        Get(image, K_bufferView)),
                                                binChunk)))),
                     K_bufferView),
              K_mimeType)
  ELSE image

\* Lines 102-110 for one image
ConvertImage(image, bufferViews, binChunk) ==
  IF IsConvertible(image)
  THEN Delete(Put(image, K_uri,
                  JStr(DataURI(Get(image, K_mimeType),
                               ImageData(ArrayAt(bufferViews, Get(image, K_bufferView)),
                                         binChunk)))),
              K_bufferView)
  ELSE image

\* A reassembly that writes the unpadded length in the BIN chunk's header
\* (not the source's).
PreprocessAssembleRawLength(newJsonBytes, binChunk) ==
  LET jsonPadding == Padding(Len(newJsonBytes))
      newJsonChunkLength == Len(newJsonBytes) + jsonPadding
      binChunkLength == Len(binChunk)
      binPadding == Padding(binChunkLength)
      totalLength == HEADER_SIZE + 8 + newJsonChunkLength + 8 + binChunkLength + binPadding
  IN
  setUint32(GLB_MAGIC) \o setUint32(GLB_VERSION) \o setUint32(totalLength)
    \o setUint32(newJsonChunkLength) \o setUint32(CHUNK_JSON)
    \o newJsonBytes \o Fill(32, jsonPadding)
    \o setUint32(binChunkLength) \o setUint32(CHUNK_BIN)
    \o binChunk \o Fill(0, binPadding)

\* Lines 119-157, newJsonBytes being the encoded JSON text; binChunk is
\* never null here.
PreprocessAssemble(newJsonBytes, binChunk) ==
  LET jsonPadding == Padding(Len(newJsonBytes))
      newJsonChunkLength == Len(newJsonBytes) + jsonPadding
      binChunkLength == Len(binChunk)
      binPadding == Padding(binChunkLength)
      newBinChunkLength == binChunkLength + binPadding
      totalLength == HEADER_SIZE + 8 + newJsonChunkLength + 8 + newBinChunkLength
  IN
  setUint32(GLB_MAGIC) \o setUint32(GLB_VERSION) \o setUint32(totalLength)
    \o setUint32(newJsonChunkLength) \o setUint32(CHUNK_JSON)
    \o newJsonBytes \o Fill(32, jsonPadding)
    \o setUint32(newBinChunkLength) \o setUint32(CHUNK_BIN)
    \o binChunk \o Fill(0, binPadding)

PreprocessSerialize(json, binChunk) ==
  PreprocessAssemble(TextEncode(JSONStringify(json)), binChunk)

\* Lines 94-115 on the parsed document.
InlineImages(json, images, bufferViews, binChunk) ==
  IF IsNullish(json) THEN Step("throw", json)
  ELSE IF ~Truthy(images) \/ ~Truthy(bufferViews) \/ ~binChunk.some
  THEN Step("same", json)
  ELSE IF ~Iterable(images) THEN Step("throw", json)
  ELSE IF \E i \in 1..Len(images[2]) :
            /\ IsConvertible(images[2][i])
            /\ IsNullish(ArrayAt(bufferViews, Get(images[2][i], K_bufferView)))
  THEN Step("throw", json)
  ELSE IF ~\E i \in 1..Len(images[2]) : IsConvertible(images[2][i])
  THEN Step("same", json)
  ELSE Step("ok",
            Put(json, K_images,
                JArr([i \in 1..Len(images[2]) |->
                        ConvertImage(images[2][i], bufferViews, binChunk.data)])))

InlineDocument(json, binChunk) ==
  InlineImages(json, Get(json, K_images), Get(json, K_bufferViews), binChunk)

InlineFinish(glb, parsed, d) ==
  IF d.st = "throw" THEN Thrown(parsed.reads)
  ELSE IF d.st = "same" THEN Same(glb, parsed.reads)
  ELSE New(PreprocessSerialize(d.json, parsed.binChunk.data), d.json,
           parsed.binChunk, parsed.reads)

InlineParsed(glb, parsed) ==
  IF parsed.st = "throw" THEN Thrown(parsed.reads)
  ELSE IF parsed.st = "same" THEN Same(glb, parsed.reads)
  ELSE InlineFinish(glb, parsed, InlineDocument(parsed.json, parsed.binChunk))

preprocessGLB(glb) == InlineParsed(glb, ParseGLB(glb))

(***************************************************************************)
(* sparse_to_dense.js (the densify script).                                *)
(***************************************************************************)
\* Lines 3-12: every chunk of the file is visited; the last JSON chunk and
\* the last BIN chunk win.  Neither magic nor version is looked at.
\* buf.slice clamps; readUInt32LE throws a RangeError past the end.
RECURSIVE ChunkLoop(_, _, _, _, _)
RECURSIVE ChunkJSON(_, _, _, _, _)
ChunkLoop(buf, offset, jsonChunk, binChunk, reads) ==
  IF ~(offset < Len(buf)) THEN ParseOk(reads, jsonChunk, binChunk)
  ELSE IF ~InRange(buf, offset, 4) \/ ~InRange(buf, offset + 4, 4)
  THEN ParseEnd("throw", reads)
  ELSE
    LET chunkLen == getUint32(buf, offset)
        chunkType == getUint32(buf, offset + 4)
        chunkData == subarray(buf, offset + 8, offset + 8 + chunkLen)
    IN
    IF chunkType = CHUNK_JSON
    THEN ChunkJSON(buf, offset + 8 + chunkLen, JSONParse(TextDecode(chunkData)),
                   binChunk, reads + 1)
    ELSE IF chunkType = CHUNK_BIN
    THEN ChunkLoop(buf, offset + 8 + chunkLen, jsonChunk, SomeBin(chunkData), reads + 1)
    ELSE ChunkLoop(buf, offset + 8 + chunkLen, jsonChunk, binChunk, reads + 1)

\* Line 9: the parsed text becomes jsonChunk (or JSON.parse throws).
ChunkJSON(buf, offset, parsed, binChunk, reads) ==
  IF ~parsed.ok THEN ParseEnd("throw", reads)
  ELSE ChunkLoop(buf, offset, parsed.v, binChunk, reads)

ReadChunks(buf) == ChunkLoop(buf, HEADER_SIZE, Undefined, NoBin, 0)

\* Line 21 without its default of four components.
ElemSizeDefaultOne(type) ==
  IF type = JStr(S_VEC3) THEN 3
  ELSE IF type = JStr(S_VEC2) THEN 2
  ELSE 1

\* Line 21
ElemSize(type) ==
  IF type = JStr(S_VEC3) THEN 3
  ELSE IF type = JStr(S_VEC2) THEN 2
  ELSE IF type = JStr(S_SCALAR) THEN 1
  ELSE 4

UNSIGNED_SHORT == 5123
UNSIGNED_INT == 5125

\* Lines 37-39: the width and the value of sparse index j
IndexWidth(idxCompType) ==
  IF idxCompType = JNum(UNSIGNED_SHORT) THEN 2
  ELSE IF idxCompType = JNum(UNSIGNED_INT) THEN 4
  ELSE 1

ReadIndex(bin, idxOff, j, idxCompType) ==
  IF idxCompType = JNum(UNSIGNED_SHORT)
  THEN bin[idxOff + j * 2 + 1] + 256 * bin[idxOff + j * 2 + 2]
  ELSE IF idxCompType = JNum(UNSIGNED_INT) THEN getUint32(bin, idxOff + j * 4)
  ELSE bin[idxOff + j + 1]

(***************************************************************************)
(* readFloatLE then writeFloatLE moves a float through a JavaScript        *)
(* number.  Which NaN bit pattern comes back is left to the engine: nan    *)
(* is "keep" (the four bytes survive), "quiet" (a signalling NaN comes     *)
(* back quiet) or "canonical" (every NaN comes back as 7FC00000).  Every   *)
(* other float keeps its bytes.  f is the four bytes, lowest first.        *)
(***************************************************************************)
IsNaN(f) == f[4] % 128 = 127 /\ f[3] >= 128 /\ (f[3] > 128 \/ f[2] > 0 \/ f[1] > 0)
IsSignalling(f) == IsNaN(f) /\ (f[3] % 128) < 64

FloatThroughNumber(f, nan) ==
  IF nan = "canonical" /\ IsNaN(f) THEN <<0, 0, 192, 127>>
  ELSE IF nan = "quiet" /\ IsSignalling(f) THEN [f EXCEPT ![3] = @ + 64]
  ELSE f

\* Lines 40-43: dense after the elemSize floats of entry j went to element idx.
WriteEntry(dense, bin, j, idx, valOff, bytesPerElem, nan) ==
  [p \in 1..Len(dense) |->
     IF p > idx * bytesPerElem /\ p <= (idx + 1) * bytesPerElem
     THEN FloatThroughNumber(
            SubSeq(bin,
                   valOff + j * bytesPerElem + ((p - idx * bytesPerElem - 1) \div 4) * 4 + 1,
                   valOff + j * bytesPerElem + ((p - idx * bytesPerElem - 1) \div 4) * 4 + 4),
            nan)[((p - idx * bytesPerElem - 1) % 4) + 1]
     ELSE dense[p]]

\* Lines 35-44 for entries j .. count-1 of the sparse list, in order:
\* a later entry overwrites an earlier one with the same index.
RECURSIVE ApplySparse(_, _, _, _, _)
ApplySparse(dense, bin, j, o, nan) ==
  IF ~(j < o.sparseCount) THEN dense
  ELSE ApplySparse(WriteEntry(dense, bin, j, ReadIndex(bin, o.idxOff, j, o.idxCompType),
                              o.valOff, o.elemSize * 4, nan),
                   bin, j + 1, o, nan)

\* Whether lines 35-44 run without a RangeError: every index, every value
\* and every write of entry j lies inside its buffer.
SparseInRange(bin, o) ==
  \A j \in 0..(o.sparseCount - 1) :
    /\ InRange(bin, o.idxOff + j * IndexWidth(o.idxCompType), IndexWidth(o.idxCompType))
    /\ \A k \in 0..(o.elemSize - 1) :
         /\ InRange(bin, o.valOff + j * o.elemSize * 4 + k * 4, 4)
         /\ ReadIndex(bin, o.idxOff, j, o.idxCompType) * o.elemSize * 4 + k * 4 + 4
              <= o.size

\* Lines 19-34: the objects one sparse accessor refers to.
Resolve(acc, bufferViews) ==
  [count |-> Get(acc, K_count),
   elemSize |-> ElemSize(Get(acc, K_type)),
   hasBase |-> ~IsUndefined(Get(acc, K_bufferView)),
   bv |-> ArrayAt(bufferViews, Get(acc, K_bufferView)),
   byteOffset |-> Get(acc, K_byteOffset),
   sparseCount |-> Get(Get(acc, K_sparse), K_count),
   indices |-> Get(Get(acc, K_sparse), K_indices),
   values |-> Get(Get(acc, K_sparse), K_values),
   idxBv |-> ArrayAt(bufferViews, Get(Get(Get(acc, K_sparse), K_indices), K_bufferView)),
   valBv |-> ArrayAt(bufferViews, Get(Get(Get(acc, K_sparse), K_values), K_bufferView))]

\* Lines 22-34: the sizes and offsets computed from them.
Offsets(r) ==
  [elemSize |-> r.elemSize,
   size |-> r.count[2] * r.elemSize * 4,
   srcOff |-> OrZero(Get(r.bv, K_byteOffset)) + OrZero(r.byteOffset),
   idxOff |-> OrZero(Get(r.idxBv, K_byteOffset)) + OrZero(Get(r.indices, K_byteOffset)),
   valOff |-> OrZero(Get(r.valBv, K_byteOffset)) + OrZero(Get(r.values, K_byteOffset)),
   idxCompType |-> Get(r.indices, K_componentType),
   sparseCount |-> IF IsNum(r.sparseCount) THEN r.sparseCount[2] ELSE 0]

\* The outcome of lines 19-44: st is "ok" or "throw".
DenseResult(st, dense) == [st |-> st, dense |-> dense]

\* A buffer that is never seeded with the base data (not the source's).
SeededWithZeros(hasBase, bin, o) == Fill(0, o.size)

\* Lines 23-28: the zero-filled buffer, with the base data copied in.
Seeded(hasBase, bin, o) ==
  IF hasBase
  THEN subarray(bin, o.srcOff, o.srcOff + o.size)
       \o Fill(0, o.size - Len(subarray(bin, o.srcOff, o.srcOff + o.size)))
  ELSE Fill(0, o.size)

\* Lines 23-44, the offsets known.
DenseAt(r, o, binChunk, nan) ==
  IF r.hasBase /\ o.srcOff > Len(binChunk.data) THEN DenseResult("throw", <<>>)
  ELSE IF ~SparseInRange(binChunk.data, o) THEN DenseResult("throw", <<>>)
  ELSE DenseResult("ok", ApplySparse(Seeded(r.hasBase, binChunk.data, o), binChunk.data,
                               0, o, nan))

\* Lines 19-34: the TypeErrors of a missing object.
DenseWith(r, binChunk, nan) ==
  IF ~IsNum(r.count) THEN DenseResult("throw", <<>>)
  ELSE IF r.hasBase /\ (IsNullish(r.bv) \/ ~binChunk.some) THEN DenseResult("throw", <<>>)
  ELSE IF IsNullish(r.indices) \/ IsNullish(r.values) THEN DenseResult("throw", <<>>)
  ELSE IF IsNullish(r.idxBv) \/ IsNullish(r.valBv) THEN DenseResult("throw", <<>>)
  ELSE IF ~binChunk.some THEN DenseResult("throw", <<>>)
  ELSE DenseAt(r, Offsets(r), binChunk, nan)

\* Lines 19-44 for one accessor that has `sparse`.
DenseOf(acc, bufferViews, binChunk, nan) ==
  DenseWith(Resolve(acc, bufferViews), binChunk, nan)

\* Line 46 as it would be if the pushed view started at the chunk's start.
NewBufferViewAtStart(byteOffset, byteLength) ==
  JObj(<< <<K_buffer, JNum(0)>>, <<K_byteOffset, JNum(0)>>,
          <<K_byteLength, JNum(byteLength)>> >>)

\* Line 46: the buffer view pushed for a dense buffer
NewBufferView(byteOffset, byteLength) ==
  JObj(<< <<K_buffer, JNum(0)>>, <<K_byteOffset, JNum(byteOffset)>>,
          <<K_byteLength, JNum(byteLength)>> >>)

\* A rewrite that leaves `sparse` on the accessor (not the source's).
RewrittenKeepingSparse(acc, newBvIndex) ==
  Put(Put(acc, K_bufferView, JNum(newBvIndex)), K_byteOffset, JNum(0))

\* Lines 48-50
Rewritten(acc, newBvIndex) ==
  Delete(Put(Put(acc, K_bufferView, JNum(newBvIndex)), K_byteOffset, JNum(0)),
         K_sparse)

\* The state of the accessor loop.
Loop(st, accessors, bufferViews, binChunk) ==
  [st |-> st, accessors |-> accessors, bufferViews |-> bufferViews,
   binChunk |-> binChunk]

\* Lines 16-52: accessors i, i+1, ... in document order.  accessors is the
\* sequence of the array's elements; bufferViews the (growing) array value.
RECURSIVE AccessorLoop(_, _, _, _, _)
RECURSIVE Converted(_, _, _, _, _, _)

\* Lines 45-51 as they would be if the dense buffer took over the buffer view
\* of the sparse values instead of a pushed one.
ConvertedOverValuesView(i, accessors, bufferViews, binChunk, nan, d) ==
  IF d.st = "throw" THEN Loop("throw", accessors, bufferViews, binChunk)
  ELSE AccessorLoop(i + 1,
                    [accessors EXCEPT
                       ![i + 1] =
                          Rewritten(accessors[i + 1],
                                    Get(Get(Get(accessors[i + 1], K_sparse), K_values),
                                        K_bufferView)[2])],
                    JArr([bufferViews[2] EXCEPT
                            ![Get(Get(Get(accessors[i + 1], K_sparse), K_values),
                                  K_bufferView)[2] + 1] =
                               NewBufferView(Len(binChunk.data), Len(d.dense))]),
                    SomeBin(binChunk.data \o d.dense), nan)

AccessorLoop(i, accessors, bufferViews, binChunk, nan) ==
  IF ~(i < Len(accessors)) THEN Loop("ok", accessors, bufferViews, binChunk)
  ELSE IF IsNullish(accessors[i + 1])
  THEN Loop("throw", accessors, bufferViews, binChunk)
  ELSE IF ~Truthy(Get(accessors[i + 1], K_sparse))
  THEN AccessorLoop(i + 1, accessors, bufferViews, binChunk, nan)
  ELSE Converted(i, accessors, bufferViews, binChunk, nan,
                 DenseOf(accessors[i + 1], bufferViews, binChunk, nan))

\* Lines 45-51, d being the dense buffer of accessor i.
Converted(i, accessors, bufferViews, binChunk, nan, d) ==
  IF d.st = "throw" THEN Loop("throw", accessors, bufferViews, binChunk)
  ELSE AccessorLoop(i + 1,
                    [accessors EXCEPT
                       ![i + 1] = Rewritten(accessors[i + 1], Len(bufferViews[2]))],
                    JArr(Append(bufferViews[2],
                                NewBufferView(Len(binChunk.data), Len(d.dense)))),
                    SomeBin(binChunk.data \o d.dense), nan)

\* The outcome of lines 13-53: st is "ok" or "throw".
Densified(st, json, binChunk) == [st |-> st, json |-> json, binChunk |-> binChunk]

\* Line 53 as it would be if it wrote a fresh buffer object.
SetByteLengthFreshBuffer(json, buffers, binChunk) ==
  IF IsNullish(ArrayAt(buffers, JNum(0))) \/ ~IsObj(ArrayAt(buffers, JNum(0)))
     \/ ~binChunk.some
  THEN Densified("throw", json, binChunk)
  ELSE Densified("ok",
                 Put(json, K_buffers,
                     JArr([buffers[2] EXCEPT
                             ![1] = JObj(<< <<K_byteLength,
                                             JNum(Len(binChunk.data))>> >>)])),
                 binChunk)

\* Line 53: jsonChunk.buffers[0].byteLength = binChunk.length
SetByteLength(json, buffers, binChunk) ==
  IF IsNullish(ArrayAt(buffers, JNum(0))) \/ ~IsObj(ArrayAt(buffers, JNum(0)))
     \/ ~binChunk.some
  THEN Densified("throw", json, binChunk)
  ELSE Densified("ok",
                 Put(json, K_buffers,
                     JArr([buffers[2] EXCEPT
                             ![1] = Put(@, K_byteLength, JNum(Len(binChunk.data)))])),
                 binChunk)

\* The document after the loop as it would be without line 53.
LoopedKeepingByteLength(jsonChunk, r) ==
  IF r.st = "throw" THEN Densified("throw", jsonChunk, r.binChunk)
  ELSE IF IsNullish(ArrayAt(Get(jsonChunk, K_buffers), JNum(0))) \/ ~r.binChunk.some
  THEN Densified("throw", jsonChunk, r.binChunk)
  ELSE Densified("ok",
                 IF IsArr(r.bufferViews)
                 THEN Put(Put(jsonChunk, K_accessors, JArr(r.accessors)),
                          K_bufferViews, r.bufferViews)
                 ELSE Put(jsonChunk, K_accessors, JArr(r.accessors)),
                 r.binChunk)

\* The document after the loop: its accessors and bufferViews arrays were
\* changed in place.
Looped(jsonChunk, r) ==
  IF r.st = "throw" THEN Densified("throw", jsonChunk, r.binChunk)
  ELSE SetByteLength(IF IsArr(r.bufferViews)
                     THEN Put(Put(jsonChunk, K_accessors, JArr(r.accessors)),
                              K_bufferViews, r.bufferViews)
                     ELSE Put(jsonChunk, K_accessors, JArr(r.accessors)),
                     Get(jsonChunk, K_buffers), r.binChunk)

\* Lines 13-53
Densify(jsonChunk, binChunk, nan) ==
  IF IsNullish(jsonChunk) \/ IsNullish(Get(jsonChunk, K_accessors))
  THEN Densified("throw", jsonChunk, binChunk)
  ELSE IF ~IsArr(Get(jsonChunk, K_accessors))
  THEN SetByteLength(jsonChunk, Get(jsonChunk, K_buffers), binChunk)
  ELSE Looped(jsonChunk,
              AccessorLoop(0, Get(jsonChunk, K_accessors)[2],
                           Get(jsonChunk, K_bufferViews), binChunk, nan))

\* A reassembly whose total leaves the 12 bytes of the header out (not the
\* source's).
DenseAssembleShortTotal(jsonBuf, binChunk) ==
  LET jsonPad == Padding(Len(jsonBuf))
      paddedJson == jsonBuf \o Fill(32, jsonPad)
      binPad == Padding(Len(binChunk))
      paddedBin == binChunk \o Fill(0, binPad)
      totalLen == 8 + Len(paddedJson) + 8 + Len(paddedBin)
  IN
  setUint32(GLB_MAGIC) \o setUint32(GLB_VERSION) \o setUint32(totalLen)
    \o setUint32(Len(paddedJson)) \o setUint32(CHUNK_JSON) \o paddedJson
    \o setUint32(Len(paddedBin)) \o setUint32(CHUNK_BIN) \o paddedBin

\* Lines 55-71, jsonBuf being the encoded JSON text; always with a BIN chunk.
DenseAssemble(jsonBuf, binChunk) ==
  LET jsonPad == Padding(Len(jsonBuf))
      paddedJson == jsonBuf \o Fill(32, jsonPad)
      binPad == Padding(Len(binChunk))
      paddedBin == binChunk \o Fill(0, binPad)
      totalLen == HEADER_SIZE + 8 + Len(paddedJson) + 8 + Len(paddedBin)
  IN
  setUint32(GLB_MAGIC) \o setUint32(GLB_VERSION) \o setUint32(totalLen)
    \o setUint32(Len(paddedJson)) \o setUint32(CHUNK_JSON) \o paddedJson
    \o setUint32(Len(paddedBin)) \o setUint32(CHUNK_BIN) \o paddedBin

\* Lines 54-71: the reassembly of the script.
DenseSerialize(jsonChunk, binChunk) ==
  DenseAssemble(TextEncode(JSONStringify(jsonChunk)), binChunk)

DenseFinish(parsed, d) ==
  IF d.st = "throw" THEN Thrown(parsed.reads)
  ELSE New(DenseSerialize(d.json, d.binChunk.data), d.json, d.binChunk, parsed.reads)

DenseParsed(parsed, nan) ==
  IF parsed.st = "throw" THEN Thrown(parsed.reads)
  ELSE DenseFinish(parsed, Densify(parsed.json, parsed.binChunk, nan))

\* The whole script on the bytes of the input file.
sparse_to_dense(buf, nan) == DenseParsed(ReadChunks(buf), nan)

(***************************************************************************)
(* The input files.  Nothing below models the repository: it writes the    *)
(* byte sequences the transforms are run on, as an upstream producer (or a *)
(* broken or hostile one) would.  Every bound is a definition.             *)
(***************************************************************************)
MaxImages == 2      \* images per document
MaxCount == 2       \* elements per sparse accessor
MaxSparse == 2      \* entries per sparse index list

Obj1(k1, v1) == JObj(<< <<k1, v1>> >>)
Obj2(k1, v1, k2, v2) == JObj(<< <<k1, v1>>, <<k2, v2>> >>)
Obj3(k1, v1, k2, v2, k3, v3) == JObj(<< <<k1, v1>>, <<k2, v2>>, <<k3, v3>> >>)

S_png == <<105,109,97,103,101,47,112,110,103>>     \* "image/png"
S_file == <<97,46,112,110,103>>                    \* "a.png"

\* Images: embedded (buffer view 0 or 1), external, both representations,
\* embedded without mimeType, bufferView null, bufferView out of range.
ImageKinds ==
  { Obj2(K_bufferView, JNum(0), K_mimeType, JStr(S_png)),
    Obj3(K_name, JStr(<<110>>), K_bufferView, JNum(1), K_mimeType, JStr(S_png)),
    Obj1(K_uri, JStr(S_file)),
    Obj3(K_bufferView, JNum(0), K_mimeType, JStr(S_png), K_uri, JStr(S_file)),
    Obj1(K_bufferView, JNum(1)) }

RareImageKinds ==
  { Obj2(K_bufferView, JNull, K_mimeType, JStr(S_png)),
    Obj2(K_bufferView, JNum(7), K_mimeType, JStr(S_png)),
    Obj3(K_bufferView, JNum(0), K_mimeType, JStr(S_png), K_uri, JStr(<<>>)),
    Obj2(K_bufferView, JNum(2), K_mimeType, JStr(S_png)),
    JNull }

SeqsUpTo(S, n) == UNION {[1..k -> S] : k \in 0..n}

Slot(i) == Obj1(K_index, JNum(i))

\* Two materials that between them use all five texture slots.
TheMaterials ==
  JArr(<< Obj2(K_pbrMetallicRoughness,
               Obj2(K_baseColorTexture, Slot(0),
                    K_metallicRoughnessTexture, Slot(1)),
               K_normalTexture, Slot(1)),
          Obj3(K_occlusionTexture, Slot(0), K_emissiveTexture, Slot(1),
               K_name, JStr(<<109>>)) >>)

\* Texture i shows image i; texture 2 has no source.
TheTextures ==
  JArr(<< Obj1(K_source, JNum(0)), Obj1(K_source, JNum(1)), Obj1(K_name, JStr(<<116>>)) >>)

\* Buffer view 0 is bytes 1..2 of the chunk, view 1 its first 3 bytes, view 2
\* runs past the end of the chunk and has no length.
ImageBufferViews ==
  JArr(<< Obj3(K_buffer, JNum(0), K_byteOffset, JNum(1), K_byteLength, JNum(2)),
          Obj2(K_buffer, JNum(0), K_byteLength, JNum(3)),
          Obj2(K_buffer, JNum(0), K_byteOffset, JNum(6)) >>)

ImageDocument(images) ==
  JObj(<< <<K_images, JArr(images)>>,
          <<K_textures, TheTextures>>,
          <<K_materials, TheMaterials>>,
          <<K_bufferViews, ImageBufferViews>>,
          <<K_buffers, JArr(<< Obj1(K_byteLength, JNum(5)) >>)>> >>)

ImageBin == <<137, 80, 78, 71, 255>>

\* Floats as four bytes, lowest first: 1 + n/2^23 for the sparse values,
\* 2 + n/2^22 for the base data; 1.0, 2.0, 3.0 and a signalling NaN.
ValueFloat(n) == <<n, 0, 128, 63>>
BaseFloat(n) == <<n, 0, 0, 64>>
FloatOne == <<0, 0, 128, 63>>
FloatTwo == <<0, 0, 0, 64>>
FloatThree == <<0, 0, 64, 64>>
FloatSNaN == <<1, 0, 128, 127>>

RECURSIVE Flatten(_)
Flatten(ss) == IF Len(ss) = 0 THEN <<>> ELSE ss[1] \o Flatten(Tail(ss))

IndexBytes(i, width) ==
  IF width = 1 THEN <<i>> ELSE IF width = 2 THEN <<i, 0>> ELSE <<i, 0, 0, 0>>

\* A sparse accessor recipe: type, count, the index list, the index
\* component type, and the base: "none", "zeros" or "data".
S_VEC4 == <<86,69,67,52>>
K_byteStride == <<98,121,116,101,83,116,114,105,100,101>>
SizeOfType(t) ==
  IF t = S_VEC4 THEN 4 ELSE IF t = S_VEC3 THEN 3 ELSE IF t = S_VEC2 THEN 2 ELSE 1
CompTypeOfType(t) == IF t = S_VEC3 THEN 5125 ELSE IF t = S_VEC2 THEN 5123 ELSE 5121
WidthOfType(t) == IF t = S_VEC3 THEN 4 ELSE IF t = S_VEC2 THEN 2 ELSE 1

TypeNames == {S_SCALAR, S_VEC2, S_VEC3}

\* Every index list over 0..count (count itself is out of range), with and
\* without base data.
SparseRecipes ==
  UNION { [type : TypeNames, count : {c}, idxs : SeqsUpTo(0..c, MaxSparse),
           base : {"none", "data"}, values : {"plain"}]
          : c \in 1..MaxCount }

\* The binary data of a recipe: base floats, then values, then indices.
RecipeBase(r) ==
  IF r.base = "none" THEN <<>>
  ELSE Flatten([n \in 1..(r.count * SizeOfType(r.type)) |->
                  IF r.base = "zeros" THEN <<0, 0, 0, 0>> ELSE BaseFloat(n)])
RecipeValues(r) ==
  Flatten([n \in 1..(Len(r.idxs) * SizeOfType(r.type)) |->
             IF r.values = "plain" THEN ValueFloat(n)
             ELSE IF r.values = "nan" THEN FloatSNaN
             ELSE <<FloatOne, FloatTwo, FloatThree>>[((n - 1) % 3) + 1]])
RecipeIndices(r) ==
  Flatten([n \in 1..Len(r.idxs) |-> IndexBytes(r.idxs[n], WidthOfType(r.type))])
RecipeBin(r) == RecipeBase(r) \o RecipeValues(r) \o RecipeIndices(r)

\* The accessor of a recipe whose data starts at byte `at` of the chunk and
\* whose buffer views start at index bv.
RecipeAccessor(r, bv) ==
  LET sparse == Obj3(K_count, JNum(Len(r.idxs)),
                     K_indices, Obj2(K_bufferView, JNum(bv + 2),
                                     K_componentType, JNum(CompTypeOfType(r.type))),
                     K_values, Obj1(K_bufferView, JNum(bv + 1)))
      common == << <<K_componentType, JNum(5126)>>, <<K_count, JNum(r.count)>>,
                   <<K_type, JStr(r.type)>>, <<K_sparse, sparse>> >>
  IN IF r.base = "none" THEN JObj(common)
     ELSE JObj(<< <<K_bufferView, JNum(bv)>> >> \o common)

RecipeBufferViews(r, at) ==
  LET b == Len(RecipeBase(r))
      v == Len(RecipeValues(r))
      i == Len(RecipeIndices(r))
  IN << IF r.type = S_VEC4
        THEN JObj(<< <<K_buffer, JNum(0)>>, <<K_byteOffset, JNum(at)>>,
                     <<K_byteLength, JNum(b)>>, <<K_byteStride, JNum(16)>> >>)
        ELSE Obj3(K_buffer, JNum(0), K_byteOffset, JNum(at), K_byteLength, JNum(b)),
        Obj3(K_buffer, JNum(0), K_byteOffset, JNum(at + b), K_byteLength, JNum(v)),
        Obj3(K_buffer, JNum(0), K_byteOffset, JNum(at + b + v), K_byteLength, JNum(i)) >>

\* A plain accessor over the bytes of the first recipe's first buffer view.
PlainAccessor ==
  Obj3(K_bufferView, JNum(0), K_count, JNum(1), K_type, JStr(S_SCALAR))

\* A document with the accessors of the recipes rs, one after the other.
RECURSIVE RecipeOffsets(_, _)
RecipeOffsets(rs, at) ==
  IF Len(rs) = 0 THEN <<>>
  ELSE <<at>> \o RecipeOffsets(Tail(rs), at + Len(RecipeBin(rs[1])))

AccessorBin(rs) == Flatten([n \in 1..Len(rs) |-> RecipeBin(rs[n])])

AccessorDocument(rs, plain) ==
  LET offs == RecipeOffsets(rs, 0) IN
  JObj(<< <<K_accessors,
            JArr((IF plain THEN <<PlainAccessor>> ELSE <<>>)
                 \o [n \in 1..Len(rs) |-> RecipeAccessor(rs[n], 3 * (n - 1))])>>,
          <<K_bufferViews,
            JArr(Flatten([n \in 1..Len(rs) |-> RecipeBufferViews(rs[n], offs[n])]))>>,
          <<K_buffers, JArr(<< Obj1(K_byteLength, JNum(Len(AccessorBin(rs)))) >>)>> >>)

\* Scenario A of the specification: VEC3, count 4, all-zero base, one
\* sparse entry overriding index 2 with [1, 2, 3].
ScenarioA ==
  [type |-> S_VEC3, count |-> 4, idxs |-> <<2>>, base |-> "zeros", values |-> "123"]

(***************************************************************************)
(* Containers.  A chunk is its length, its type and its data; the header   *)
(* carries the total length plus lenDelta (0 for a correct header).        *)
(***************************************************************************)
Chunk(type, data) == setUint32(Len(data)) \o setUint32(type) \o data

Container(magic, version, lenDelta, chunks) ==
  setUint32(magic) \o setUint32(version)
    \o setUint32(HEADER_SIZE + Len(chunks) + lenDelta) \o chunks

\* What a conforming producer writes: both chunks padded to 4 bytes.
Padded(data, byte) == data \o Fill(byte, Padding(Len(data)))

JsonChunk(doc, pad) ==
  Chunk(CHUNK_JSON, IF pad THEN Padded(JSONStringify(doc), 32) ELSE JSONStringify(doc))
BinChunk(bin, pad) ==
  Chunk(CHUNK_BIN, IF pad THEN Padded(bin, 0) ELSE bin)

Glb(chunks) == Container(GLB_MAGIC, GLB_VERSION, 0, chunks)

\* Image documents, without a binary chunk, with a padded one, with a raw one.
\* An embedded image whose buffer view (bytes 3..11) runs past the end of
\* the 5-byte binary chunk.
OverrunDocument ==
  JObj(<< <<K_images, JArr(<< Obj2(K_bufferView, JNum(0), K_mimeType, JStr(S_png)) >>)>>,
          <<K_bufferViews,
            JArr(<< Obj3(K_buffer, JNum(0), K_byteOffset, JNum(3), K_byteLength, JNum(8)) >>)>>,
          <<K_buffers, JArr(<< Obj1(K_byteLength, JNum(5)) >>)>> >>)
OverrunInput == Glb(JsonChunk(OverrunDocument, TRUE) \o BinChunk(ImageBin, TRUE))

StripInputs ==
  { OverrunInput } \cup
  { Glb(JsonChunk(ImageDocument(images), TRUE) \o BinChunk(ImageBin, TRUE))
    : images \in SeqsUpTo(ImageKinds, MaxImages) }
  \cup
  { Glb(JsonChunk(ImageDocument(images), TRUE)
        \o (IF raw THEN BinChunk(ImageBin, FALSE) ELSE <<>>))
    : images \in SeqsUpTo(ImageKinds, 1), raw \in BOOLEAN }
  \cup
  { Glb(JsonChunk(ImageDocument(images), TRUE) \o BinChunk(ImageBin, TRUE))
    : images \in {<<rare>> : rare \in RareImageKinds}
                 \cup {<<Obj2(K_bufferView, JNum(0), K_mimeType, JStr(S_png)), rare>>
                       : rare \in RareImageKinds} }

\* Accessor documents: one sparse accessor per recipe; then the scenario of
\* the specification, a signalling NaN, and several accessors in a row.
RecipeA == [type |-> S_SCALAR, count |-> 2, idxs |-> <<1>>, base |-> "data",
            values |-> "plain"]
RecipeB == [type |-> S_VEC2, count |-> 1, idxs |-> <<0>>, base |-> "none",
            values |-> "plain"]
RecipeNaN == [type |-> S_SCALAR, count |-> 2, idxs |-> <<1>>, base |-> "data",
              values |-> "nan"]

RecipeC == [type |-> S_VEC3, count |-> 2, idxs |-> <<1>>, base |-> "zeros",
            values |-> "plain"]
RecipeD == [type |-> S_VEC4, count |-> 1, idxs |-> <<0>>, base |-> "data",
            values |-> "plain"]

\* The container of Scenario A: its one accessor.
ScenarioAInput ==
  Glb(JsonChunk(AccessorDocument(<<ScenarioA>>, FALSE), TRUE)
      \o BinChunk(AccessorBin(<<ScenarioA>>), TRUE))

\* An accessor whose base runs past the end of the binary chunk: 3 scalars
\* read at byte 8 + 4 of a 16-byte chunk, from a buffer view of bytes 8..24; entry 0 of the sparse list (value
\* at byte 0, index at byte 4) overrides element 1.
ShortBaseBin == ValueFloat(9) \o <<1, 0, 0, 0>> \o BaseFloat(1) \o BaseFloat(2)
ShortBaseDocument ==
  JObj(<< <<K_accessors,
            JArr(<< JObj(<< <<K_bufferView, JNum(0)>>, <<K_byteOffset, JNum(4)>>,
                            <<K_count, JNum(3)>>, <<K_type, JStr(S_SCALAR)>>,
                            <<K_sparse,
                              Obj3(K_count, JNum(1),
                                   K_indices, Obj2(K_bufferView, JNum(1),
                                                   K_componentType, JNum(5121)),
                                   K_values, Obj1(K_bufferView, JNum(2)))>> >>) >>)>>,
          <<K_bufferViews,
            JArr(<< Obj3(K_buffer, JNum(0), K_byteOffset, JNum(8), K_byteLength, JNum(16)),
                    Obj3(K_buffer, JNum(0), K_byteOffset, JNum(4), K_byteLength, JNum(1)),
                    Obj2(K_buffer, JNum(0), K_byteLength, JNum(4)) >>)>>,
          <<K_buffers, JArr(<< Obj1(K_byteLength, JNum(16)) >>)>> >>)

\* Documents without a sparse accessor: one plain accessor over a chunk of n
\* bytes, declared with n bytes.
PlainLengths == {5, 8}
PlainBin(n) == SubSeq(BaseFloat(1) \o BaseFloat(2), 1, n)
PlainDocument(n) ==
  JObj(<< <<K_accessors, JArr(<< PlainAccessor >>)>>,
          <<K_bufferViews, JArr(<< Obj2(K_buffer, JNum(0), K_byteLength, JNum(4)) >>)>>,
          <<K_buffers, JArr(<< Obj2(K_name, JStr(S_file), K_byteLength, JNum(n)) >>)>> >>)
PlainInputs ==
  { Glb(JsonChunk(PlainDocument(n), TRUE) \o BinChunk(PlainBin(n), pad))
    : n \in PlainLengths, pad \in BOOLEAN }

\* Sparse accessors that name a buffer view the document does not have: as
\* their base, as their indices.
DanglingDocument(base, indices) ==
  JObj(<< <<K_accessors,
            JArr(<< JObj(<< <<K_bufferView, JNum(base)>>,
                            <<K_count, JNum(1)>>, <<K_type, JStr(S_SCALAR)>>,
                            <<K_sparse,
                              Obj3(K_count, JNum(1),
                                   K_indices, Obj2(K_bufferView, JNum(indices),
                                                   K_componentType, JNum(5121)),
                                   K_values, Obj1(K_bufferView, JNum(1)))>> >>) >>)>>,
          <<K_bufferViews, JArr(RecipeBufferViews(RecipeA, 0))>>,
          <<K_buffers, JArr(<< Obj1(K_byteLength, JNum(Len(RecipeBin(RecipeA)))) >>)>> >>)
DanglingInputs ==
  { Glb(JsonChunk(DanglingDocument(v[1], v[2]), TRUE) \o BinChunk(RecipeBin(RecipeA), TRUE))
    : v \in { <<9, 2>>, <<0, 9>> } }

DenseInputs ==
  PlainInputs \cup DanglingInputs \cup
  { Glb(JsonChunk(AccessorDocument(<<r>>, FALSE), TRUE)
        \o BinChunk(AccessorBin(<<r>>), FALSE))
    : r \in SparseRecipes }
  \cup
  { ScenarioAInput,
    Glb(JsonChunk(ShortBaseDocument, TRUE) \o BinChunk(ShortBaseBin, TRUE)) }
  \cup
  { Glb(JsonChunk(AccessorDocument(rs, TRUE), TRUE) \o BinChunk(AccessorBin(rs), TRUE))
    : rs \in { <<>>, <<ScenarioA>>, <<RecipeNaN>>, <<RecipeC>>, <<RecipeD, RecipeA>>, <<RecipeA, RecipeB>>,
               <<RecipeB, RecipeA, ScenarioA>> } }

\* One embedded image and one sparse accessor: every transform has work.
MixedBin == <<137, 80, 78, 71>> \o RecipeBin(RecipeA)
MixedDocument ==
  JObj(<< <<K_images, JArr(<< Obj2(K_bufferView, JNum(0), K_mimeType, JStr(S_png)) >>)>>,
          <<K_bufferViews,
            JArr(<< Obj2(K_buffer, JNum(0), K_byteLength, JNum(4)) >>
                 \o RecipeBufferViews(RecipeA, 4))>>,
          <<K_accessors, JArr(<< RecipeAccessor(RecipeA, 1) >>)>>,
          <<K_buffers, JArr(<< Obj1(K_byteLength, JNum(Len(MixedBin))) >>)>> >>)

\* A magic and a chunk type that are neither of the format's.
OTHER_MAGIC == GLB_MAGIC + 1
OTHER_TYPE == CHUNK_BIN + 1

\* Headers: magic, version, the length field, the type of the first chunk.
HeaderInputs ==
  { Container(magic, version, lenDelta,
              Chunk(firstType, Padded(JSONStringify(MixedDocument), 32))
              \o BinChunk(MixedBin, TRUE))
    : magic \in {GLB_MAGIC, OTHER_MAGIC}, version \in {GLB_VERSION, 1},
      lenDelta \in {0, 4, -4}, firstType \in {CHUNK_JSON, CHUNK_BIN, OTHER_TYPE} }

\* What follows the JSON chunk: a BIN chunk or a chunk of another type,
\* then nothing, further chunks, or stray bytes.
EmptyObjectText == <<123, 125>>
Tails ==
  { <<>>,
    Chunk(OTHER_TYPE, <<1, 2, 3, 4>>),
    Chunk(CHUNK_BIN, <<9, 9, 9, 9>>),
    Chunk(CHUNK_JSON, EmptyObjectText \o <<32, 32>>),
    Chunk(CHUNK_JSON, <<123, 32, 32, 32>>),
    <<7, 7, 7>> }

ChunkInputs ==
  { Glb(JsonChunk(MixedDocument, pad) \o Chunk(secondType, MixedBin) \o tail)
    : pad \in BOOLEAN, secondType \in {CHUNK_BIN, OTHER_TYPE}, tail \in Tails }
  \cup
  { Glb(JsonChunk(MixedDocument, TRUE) \o tail) : tail \in Tails }

\* Every sort of truncated file.
Baseline == Glb(JsonChunk(MixedDocument, TRUE) \o BinChunk(MixedBin, TRUE))
JsonEnd(b) == HEADER_SIZE + 8 + getUint32(b, HEADER_SIZE)
CutPoints(b) ==
  (0..28) \cup {JsonEnd(b) + d : d \in -1..9} \cup {Len(b) - 1}

TruncatedInputs ==
  { SubSeq(b, 1, Min(n, Len(b)))
    : n \in CutPoints(Baseline),
      b \in { Baseline,
              Container(OTHER_MAGIC, GLB_VERSION, 0, JsonChunk(MixedDocument, TRUE)),
              Container(GLB_MAGIC, 1, 0, JsonChunk(MixedDocument, TRUE)),
              Glb(Chunk(OTHER_TYPE, Padded(JSONStringify(MixedDocument), 32))) } }

\* JSON texts a producer may write differently, or wrongly.
T_null == <<110, 117, 108, 108>>
T_five == <<53>>
T_open == <<123>>
T_noImages == <<123, 34, 105, 109, 97, 103, 101, 115, 34, 58, 91, 93, 125>>   \* {"images":[]}
T_imagesObject == <<123, 34, 105, 109, 97, 103, 101, 115, 34, 58, 123, 125, 125>>
Spaced(text) == <<32, 10>> \o text \o <<13, 9>>
WithByte(text, byte) == SubSeq(text, 1, Len(text) - 1) \o <<44, 34, 120, 34, 58, 34, byte, 34, 125>>

TextInputs ==
  { Glb(Chunk(CHUNK_JSON, text) \o BinChunk(MixedBin, TRUE))
    : text \in { T_null, T_five, T_open, T_noImages, T_imagesObject, <<>>,
                 Spaced(JSONStringify(MixedDocument)),
                 JSONStringify(MixedDocument) \o <<0, 0>>,
                 WithByte(JSONStringify(MixedDocument), 255),
                 WithByte(WithByte(JSONStringify(MixedDocument), 65), 66),
                 JSONStringify(Delete(MixedDocument, K_buffers)),
                 JSONStringify(Delete(MixedDocument, K_accessors)),
                 JSONStringify(Delete(MixedDocument, K_bufferViews)) } }

Inputs ==
  StripInputs \cup DenseInputs \cup HeaderInputs \cup ChunkInputs
    \cup TruncatedInputs \cup TextInputs

(***************************************************************************)
(* The state machine: a caller holds a buffer and runs one transform on    *)
(* it.  Reserialize is the parser followed at once by the reassembly, the  *)
(* document untouched.                                                     *)
(***************************************************************************)
NotRun ==
  [kind |-> "none", buf |-> <<>>, json |-> Undefined, binChunk |-> NoBin, reads |-> 0]

NaNModes == {"keep", "quiet", "canonical"}

(***************************************************************************)
(* The memory of a call.  The reassembly stores through a DataView and a   *)
(* Uint8Array of `result`, a buffer allocated for it (glbPreprocess.ts     *)
(* lines 147-149 and 166-168, preprocessGLB lines 130-132); the parser's   *)
(* views of glbBuffer are only read.                                       *)
(***************************************************************************)
\* The reassembly as it would be if its views wrapped the caller's buffer.
ResultBufferOfCaller == "glbBuffer"

\* const result = new ArrayBuffer(totalLength)
ResultBuffer == "result"

\* The stores of the reassembly in program order: setUint32, set and the
\* padding loops, each at its byte offset.
StoresOf(newJsonBytes, binChunk) ==
  LET jsonPadding == Padding(Len(newJsonBytes))
      newJsonChunkLength == Len(newJsonBytes) + jsonPadding
      binPadding == Padding(Len(binChunk.data))
      newBinChunkLength == Len(binChunk.data) + binPadding
      pos == HEADER_SIZE + 8 + newJsonChunkLength
      totalLength == IF binChunk.some THEN pos + 8 + newBinChunkLength ELSE pos
  IN << [at |-> 0, bytes |-> setUint32(GLB_MAGIC)],
        [at |-> 4, bytes |-> setUint32(GLB_VERSION)],
        [at |-> 8, bytes |-> setUint32(totalLength)],
        [at |-> 12, bytes |-> setUint32(newJsonChunkLength)],
        [at |-> 16, bytes |-> setUint32(CHUNK_JSON)],
        [at |-> 20, bytes |-> newJsonBytes],
        [at |-> 20 + Len(newJsonBytes), bytes |-> Fill(32, jsonPadding)] >>
     \o IF binChunk.some
        THEN << [at |-> pos, bytes |-> setUint32(newBinChunkLength)],
                [at |-> pos + 4, bytes |-> setUint32(CHUNK_BIN)],
                [at |-> pos + 8, bytes |-> binChunk.data],
                [at |-> pos + 8 + Len(binChunk.data), bytes |-> Fill(0, binPadding)] >>
        ELSE <<>>

\* The stores of a call: none unless it reached the reassembly.
StoresIn(o) ==
  IF o.kind = "new" THEN StoresOf(TextEncode(JSONStringify(o.json)), o.binChunk)
  ELSE <<>>

\* A buffer after the stores ss, in order.
RECURSIVE Store(_, _)
Store(buffer, ss) ==
  IF ss = <<>> THEN buffer
  ELSE Store([i \in 1..Len(buffer) |->
                IF i > ss[1].at /\ i <= ss[1].at + Len(ss[1].bytes)
                THEN ss[1].bytes[i - ss[1].at]
                ELSE buffer[i]],
             Tail(ss))

\* The bytes of the caller's buffer when the call is over.
CallerBuffer(glb, ss) ==
  IF ResultBuffer = "glbBuffer" THEN Store(glb, ss) ELSE glb

Reparsed(glb, with, parsed) ==
  IF parsed.st = "throw" THEN Thrown(parsed.reads)
  ELSE IF parsed.st = "same" THEN Same(glb, parsed.reads)
  ELSE IF with = "strip"
  THEN New(Serialize(parsed.json, parsed.binChunk), parsed.json, parsed.binChunk,
           parsed.reads)
  ELSE IF IsUndefined(parsed.json) \/ ~parsed.binChunk.some THEN Thrown(parsed.reads)
  ELSE IF with = "inline"
  THEN New(PreprocessSerialize(parsed.json, parsed.binChunk.data), parsed.json,
           parsed.binChunk, parsed.reads)
  ELSE New(DenseSerialize(parsed.json, parsed.binChunk.data), parsed.json,
           parsed.binChunk, parsed.reads)

ReOp(with) ==
  IF with = "strip" THEN "re-strip"
  ELSE IF with = "inline" THEN "re-inline"
  ELSE "re-dense"

Reserialized(glb, with) ==
  Reparsed(glb, with, IF with = "dense" THEN ReadChunks(glb) ELSE ParseGLB(glb))

\* No dictionary categorized.
SliderIdle ==
  /\ morphTargetDictionary = <<>>
  /\ categories = <<>>

\* No scene: no mesh, no slider moved.
MorphIdle ==
  /\ morphState = <<>>
  /\ meshesRef = <<>>
  /\ morphTargetInfluences = <<>>
  /\ parent = <<>>

\* No body geometry.
MaskIdle ==
  /\ originalIndexRef = JNull
  /\ indexArray = <<>>
  /\ drawRange = <<>>
  /\ equippedMeshNamesRef = <<>>

\* No model, no clothing selected.
ClothingIdle ==
  /\ modelRef = JNull
  /\ clothingItems = <<>>
  /\ modelLoadItems = <<>>
  /\ loadedClothingRef = <<>>
  /\ clothingGroupRef = JNull
  /\ loads = <<>>
  /\ onClothingMeshesLoaded = <<>>

\* No animation selected.
AnimIdle ==
  /\ currentAnimation = "null"
  /\ animationDef = "null"
  /\ downloads = <<>>
  /\ fetches = <<>>
  /\ currentAnimIdRef = "null"
  /\ currentActionRef = "null"
  /\ animClipsRef = {}

\* The viewer before the app is mounted: nothing loaded, nothing selected.
ViewerIdle ==
  /\ SliderIdle
  /\ MorphIdle
  /\ MaskIdle
  /\ ClothingIdle
  /\ AnimIdle

Init ==
  /\ glbBuffer \in Inputs
  /\ op = "none"
  /\ out = NotRun
  /\ ViewerIdle

Strip ==
  /\ op = "none"
  /\ op' = "strip"
  /\ out' = stripEmbeddedTextures(glbBuffer)
  /\ glbBuffer' = CallerBuffer(glbBuffer, StoresIn(out'))
  /\ UNCHANGED viewerVars

Inline ==
  /\ op = "none"
  /\ op' = "inline"
  /\ out' = preprocessGLB(glbBuffer)
  /\ glbBuffer' = CallerBuffer(glbBuffer, StoresIn(out'))
  /\ UNCHANGED viewerVars

Dense ==
  /\ op = "none"
  /\ op' = "dense"
  /\ \E nan \in NaNModes : out' = sparse_to_dense(glbBuffer, nan)
  /\ UNCHANGED <<glbBuffer, viewerVars>>

Reserialize ==
  /\ op = "none"
  /\ \E with \in {"strip", "inline", "dense"} :
       /\ op' = ReOp(with)
       /\ out' = Reserialized(glbBuffer, with)
  /\ UNCHANGED <<glbBuffer, viewerVars>>

Next == Strip \/ Inline \/ Dense \/ Reserialize

Spec == Init /\ [][Next]_vars

(***************************************************************************)
(* Properties.                                                             *)
(***************************************************************************)
ReOps == {"re-strip", "re-inline", "re-dense"}

\* The parser an operation starts with.
ParserOf(o, buf) ==
  IF o \in {"dense", "re-dense"} THEN ReadChunks(buf) ELSE ParseGLB(buf)

\* b is a followed only by bytes `byte`, fewer than 4 of them.
IsPaddingOf(b, a, byte) ==
  /\ Len(b) - Len(a) \in 0..3
  /\ SubSeq(b, 1, Len(a)) = a
  /\ \A i \in (Len(a) + 1)..Len(b) : b[i] = byte

RoundTripExact(first, again) ==
  /\ again.st = "ok"
  /\ DeepEqual(again.json, first.json)
  /\ again.binChunk = first.binChunk

RoundTripPadded(first, again) ==
  /\ again.st = "ok"
  /\ DeepEqual(again.json, first.json)
  /\ again.binChunk.some = first.binChunk.some
  /\ IsPaddingOf(again.binChunk.data, first.binChunk.data, 0)
  /\ first.binChunk.some => Len(again.binChunk.data) % 4 = 0
  /\ Len(first.binChunk.data) % 4 = 0 => again.binChunk = first.binChunk

\* C1, as stated: parsing, serialising and parsing again gives a document
\* deep-equal to the first parse's one and a binary chunk with identical bytes.
C1_RoundTripIdentical ==
  (op \in ReOps /\ out.kind = "new")
    => RoundTripExact(out, ParserOf(op, out.buf))

\* C1: parsing, serialising and parsing again gives a document deep-equal to
\* the first parse's one and a binary chunk that is the first parse's chunk
\* followed by the zero bytes (fewer than 4) that bring it to a multiple of 4;
\* the chunks are identical when the first one's length is a multiple of 4.
C1_RoundTrip ==
  (op \in ReOps /\ out.kind = "new")
    => RoundTripPadded(out, ParserOf(op, out.buf))

\* A container with images, accessors and a binary chunk of unaligned length
\* went through parse and reassembly.
C1_Witness ==
  /\ op \in ReOps
  /\ out.kind = "new"
  /\ out.binChunk.some
  /\ Len(out.binChunk.data) % 4 # 0
  /\ IsArr(Get(out.json, K_accessors))

(***************************************************************************)
(* Densify correctness.                                                    *)
(***************************************************************************)
\* n bytes at offset off of bin; bytes past its end read as zero.
BytesAt(bin, off, n) ==
  [p \in 1..n |-> IF off + p <= Len(bin) THEN bin[off + p] ELSE 0]

\* Float for float the same values: the same bytes, or both NaN.
SameFloats(a, b) ==
  /\ Len(a) = Len(b)
  /\ \A k \in 0..((Len(a) \div 4) - 1) :
       \/ SubSeq(a, 4 * k + 1, 4 * k + 4) = SubSeq(b, 4 * k + 1, 4 * k + 4)
       \/ IsNaN(SubSeq(a, 4 * k + 1, 4 * k + 4)) /\ IsNaN(SubSeq(b, 4 * k + 1, 4 * k + 4))

\* The positions of the sparse index list that name element i.
Positions(bin, o, i) ==
  {j \in 0..(o.sparseCount - 1) : ReadIndex(bin, o.idxOff, j, o.idxCompType) = i}

\* The sparse values at position j.
ValuesAt(bin, o, j) == BytesAt(bin, o.valOff + j * o.elemSize * 4, o.elemSize * 4)

\* Element i of the base, or zeros without a base.
BaseElement(bin, o, hasBase, i) ==
  IF hasBase THEN BytesAt(bin, o.srcOff + i * o.elemSize * 4, o.elemSize * 4)
  ELSE Fill(0, o.elemSize * 4)

LastOf(P) == CHOOSE j \in P : \A k \in P : k <= j

\* elem is what element i has to be, every position of i counted.
ElementAtEveryPosition(elem, bin, o, hasBase, i) ==
  IF Positions(bin, o, i) = {} THEN elem = BaseElement(bin, o, hasBase, i)
  ELSE \A j \in Positions(bin, o, i) : SameFloats(elem, ValuesAt(bin, o, j))

\* elem is what element i has to be, the last position of i counted.
ElementAtLastPosition(elem, bin, o, hasBase, i) ==
  IF Positions(bin, o, i) = {} THEN elem = BaseElement(bin, o, hasBase, i)
  ELSE SameFloats(elem, ValuesAt(bin, o, LastOf(Positions(bin, o, i))))

\* The dense data of a rewritten accessor: count elements at its new view.
DenseData(newAcc, newBufferViews, newBin, size) ==
  SubSeq(newBin,
         Get(ArrayAt(newBufferViews, Get(newAcc, K_bufferView)), K_byteOffset)[2]
           + Get(newAcc, K_byteOffset)[2] + 1,
         Get(ArrayAt(newBufferViews, Get(newAcc, K_bufferView)), K_byteOffset)[2]
           + Get(newAcc, K_byteOffset)[2] + size)

ElementOf(data, o, i) == SubSeq(data, i * o.elemSize * 4 + 1, (i + 1) * o.elemSize * 4)

AccessorAtEveryPosition(data, bin, o, hasBase, count) ==
  /\ Len(data) = o.size
  /\ \A i \in 0..(count - 1) :
       ElementAtEveryPosition(ElementOf(data, o, i), bin, o, hasBase, i)

AccessorAtLastPosition(data, bin, o, hasBase, count) ==
  /\ Len(data) = o.size
  /\ \A i \in 0..(count - 1) :
       ElementAtLastPosition(ElementOf(data, o, i), bin, o, hasBase, i)

WasSparse(json, a) == Truthy(Get(Get(json, K_accessors)[2][a], K_sparse))

ResolvedAt(json, a) == Resolve(Get(json, K_accessors)[2][a], Get(json, K_bufferViews))

DenseDataAt(json, bin, a, size) ==
  DenseData(Get(json, K_accessors)[2][a], Get(json, K_bufferViews), bin, size)

DensifiedAtEveryPosition(first, after) ==
  \A a \in 1..Len(Get(first.json, K_accessors)[2]) :
    WasSparse(first.json, a) =>
      AccessorAtEveryPosition(
        DenseDataAt(after.json, after.binChunk.data, a,
                    Offsets(ResolvedAt(first.json, a)).size),
        first.binChunk.data, Offsets(ResolvedAt(first.json, a)),
        ResolvedAt(first.json, a).hasBase, ResolvedAt(first.json, a).count[2])

DensifiedAtLastPosition(first, after) ==
  \A a \in 1..Len(Get(first.json, K_accessors)[2]) :
    WasSparse(first.json, a) =>
      AccessorAtLastPosition(
        DenseDataAt(after.json, after.binChunk.data, a,
                    Offsets(ResolvedAt(first.json, a)).size),
        first.binChunk.data, Offsets(ResolvedAt(first.json, a)),
        ResolvedAt(first.json, a).hasBase, ResolvedAt(first.json, a).count[2])

\* Scenario A: [[0,0,0],[0,0,0],[1,2,3],[0,0,0]]
ScenarioAData ==
  Fill(0, 24) \o FloatOne \o FloatTwo \o FloatThree \o Fill(0, 12)

ScenarioADensified ==
  (glbBuffer = ScenarioAInput) =>
    /\ out.kind = "new"
    /\ DenseDataAt(out.json, out.binChunk.data, 1, 48) = ScenarioAData

DenseRan == op = "dense" /\ out.kind = "new" /\ IsArr(Get(out.json, K_accessors))

TwiceInput ==
  Glb(JsonChunk(AccessorDocument(<<[type |-> S_SCALAR, count |-> 2, idxs |-> <<1, 1>>,
                                    base |-> "data", values |-> "plain"]>>, FALSE), TRUE)
      \o BinChunk(AccessorBin(<<[type |-> S_SCALAR, count |-> 2, idxs |-> <<1, 1>>,
                                  base |-> "data", values |-> "plain"]>>), FALSE))

StripRan == op = "strip" /\ out.kind = "new"

\* The elements of an array value, none for anything else.
Elements(xs) == IF IsArr(xs) THEN xs[2] ELSE <<>>

\* The five texture slots of a material.
SlotsOf(mat) ==
  << OptGet(Get(mat, K_pbrMetallicRoughness), K_baseColorTexture),
     OptGet(Get(mat, K_pbrMetallicRoughness), K_metallicRoughnessTexture),
     Get(mat, K_normalTexture),
     Get(mat, K_occlusionTexture),
     Get(mat, K_emissiveTexture) >>

\* The slot's index names a texture whose source is an embedded image.
NamesEmbedded(texInfo, textures, images) ==
  IsEmbedded(ArrayAt(images, Get(ArrayAt(textures, OptGet(texInfo, K_index)), K_source)))

SomeSlot(materials, textures, images) ==
  \E m \in 1..Len(Elements(materials)) :
    \E k \in 1..5 : NamesEmbedded(SlotsOf(Elements(materials)[m])[k], textures, images)

StripComplete(first, after) ==
  /\ ~SomeSlot(Get(after, K_materials), Get(first, K_textures), Get(first, K_images))
  /\ Len(Elements(Get(after, K_images))) = Len(Elements(Get(first, K_images)))

\* C3: after stripEmbeddedTextures modified a container, no material of the
\* output has in any of its five texture slots an index naming a texture whose
\* source was an embedded image of the input, and the images array is as
\* long as in the input.
C3_StripComplete == StripRan => StripComplete(ParseGLB(glbBuffer).json, out.json)

SlotsLeft(materials) ==
  \E m \in 1..Len(Elements(materials)) :
    \E k \in 1..5 : ~IsUndefined(SlotsOf(Elements(materials)[m])[k])

StrippedSome(first, after) ==
  /\ SomeSlot(Get(first, K_materials), Get(first, K_textures), Get(first, K_images))
  /\ SlotsLeft(Get(after, K_materials))
  /\ Len(Elements(Get(first, K_images))) = 2

\* Strip ran on two images, took the slots of the embedded one away and left
\* the slots of the other.
C3_Witness == StripRan /\ StrippedSome(ParseGLB(glbBuffer).json, out.json)

(***************************************************************************)
(* Inline-mode uri validity.                                               *)
(***************************************************************************)
\* The value of a base64 character, -1 for any other.
Base64Value(c) ==
  IF c >= 65 /\ c <= 90 THEN c - 65
  ELSE IF c >= 97 /\ c <= 122 THEN c - 97 + 26
  ELSE IF c >= 48 /\ c <= 57 THEN c - 48 + 52
  ELSE IF c = 43 THEN 62
  ELSE IF c = 47 THEN 63
  ELSE -1

\* The position of the first c in s at or after p, 0 when there is none.
FirstAt(s, c, p) ==
  IF \E i \in p..Len(s) : s[i] = c
  THEN CHOOSE i \in p..Len(s) : s[i] = c /\ \A k \in p..(i - 1) : s[k] # c
  ELSE 0

\* [A-Za-z0-9+/]+=*
IsPayload(t) ==
  \E k \in 1..Len(t) :
    /\ \A i \in 1..k : Base64Value(t[i]) >= 0
    /\ \A i \in (k + 1)..Len(t) : t[i] = 61

\* ^data:[^;]+;base64,[A-Za-z0-9+/]+=*$ with the first ; at position semi
MatchesAt(s, semi) ==
  /\ semi > Len(S_data) + 1
  /\ SubSeq(s, 1, Len(S_data)) = S_data
  /\ Len(s) >= semi + Len(S_base64) - 1
  /\ SubSeq(s, semi, semi + Len(S_base64) - 1) = S_base64
  /\ IsPayload(SubSeq(s, semi + Len(S_base64), Len(s)))

MatchesDataURI(s) == MatchesAt(s, FirstAt(s, 59, 1))

PayloadOf(s) == SubSeq(s, FirstAt(s, 59, 1) + Len(S_base64), Len(s))

\* The six bits of character i of a payload, 0 for the padding.
Sextet(t, i) == IF t[i] = 61 THEN 0 ELSE Base64Value(t[i])

Pads(t) == Cardinality({i \in 1..Len(t) : t[i] = 61})

\* atob then the bytes of the binary string.
Base64Decode(t) ==
  [q \in 1..((Len(t) \div 4) * 3 - Pads(t)) |->
     IF (q - 1) % 3 = 0
     THEN Sextet(t, 4 * ((q - 1) \div 3) + 1) * 4
          + Sextet(t, 4 * ((q - 1) \div 3) + 2) \div 16
     ELSE IF (q - 1) % 3 = 1
     THEN (Sextet(t, 4 * ((q - 1) \div 3) + 2) % 16) * 16
          + Sextet(t, 4 * ((q - 1) \div 3) + 3) \div 4
     ELSE (Sextet(t, 4 * ((q - 1) \div 3) + 3) % 4) * 64
          + Sextet(t, 4 * ((q - 1) \div 3) + 4)]

\* binaryChunk[byteOffset .. byteOffset + byteLength) of a buffer view
ViewBytes(bv, bin) ==
  SubSeq(bin, OrZero(Get(bv, K_byteOffset)) + 1,
         Min(OrZero(Get(bv, K_byteOffset)) + OrZero(Get(bv, K_byteLength)), Len(bin)))

\* An image with a bufferView and no uri.
WasEmbedded(image) ==
  ~IsUndefined(Get(image, K_bufferView)) /\ IsUndefined(Get(image, K_uri))

\* The image carries its bytes as a data URI.
IsInlined(image, bytes) ==
  /\ IsUndefined(Get(image, K_bufferView))
  /\ IsStr(Get(image, K_uri))
  /\ MatchesDataURI(Get(image, K_uri)[2])
  /\ Len(PayloadOf(Get(image, K_uri)[2])) % 4 = 0
  /\ Base64Decode(PayloadOf(Get(image, K_uri)[2])) = bytes

InlineValid(first, bin, after) ==
  \A i \in 1..Len(Elements(Get(first, K_images))) :
    WasEmbedded(Elements(Get(first, K_images))[i]) =>
      IsInlined(ArrayAt(Get(after, K_images), JNum(i - 1)),
                ViewBytes(ArrayAt(Get(first, K_bufferViews),
                                  Get(Elements(Get(first, K_images))[i], K_bufferView)),
                          bin))

\* The document a caller finds in what preprocessGLB returned.
Returned(o, first) == IF o.kind = "new" THEN o.json ELSE first

InlineValidFrom(parsed, o) ==
  InlineValid(parsed.json, parsed.binChunk.data, Returned(o, parsed.json))

\* C4, as stated: after preprocessGLB ran on a container, every image that
\* had a bufferView and no uri in the input has no bufferView, and a uri
\* data:<mimeType>;base64,<payload> that matches the pattern and whose payload
\* decodes to the bytes of the image's buffer view.
C4_InlineValid ==
  (op = "inline" /\ out.kind \in {"new", "same"})
    => InlineValidFrom(ParseGLB(glbBuffer), out)

(***************************************************************************)
(* The containers the serializers write.                                   *)
(***************************************************************************)
Transforms == {"strip", "inline", "dense"}

Wrote == op \in Transforms /\ out.kind = "new"

\* The length field and the data of the chunk whose header is at offset.
LengthAt(buf, offset) == getUint32(buf, offset)
DataAt(buf, offset) == SubSeq(buf, offset + 9, offset + 8 + getUint32(buf, offset))

\* The JSON chunk at offset 12: an aligned length, the text, then spaces.
JsonAligned(buf, text) ==
  /\ InRange(buf, HEADER_SIZE, 8)
  /\ LengthAt(buf, HEADER_SIZE) % 4 = 0
  /\ InRange(buf, HEADER_SIZE + 8, LengthAt(buf, HEADER_SIZE))
  /\ IsPaddingOf(DataAt(buf, HEADER_SIZE), text, 32)

\* The BIN chunk at offset: an aligned length, the chunk, then zeros, and
\* nothing after it.
BinAligned(buf, offset, bin) ==
  /\ InRange(buf, offset, 8)
  /\ LengthAt(buf, offset) % 4 = 0
  /\ Len(buf) = offset + 8 + LengthAt(buf, offset)
  /\ IsPaddingOf(DataAt(buf, offset), bin, 0)

Aligned(buf, text, binChunk) ==
  /\ JsonAligned(buf, text)
  /\ IF binChunk.some
     THEN BinAligned(buf, HEADER_SIZE + 8 + LengthAt(buf, HEADER_SIZE), binChunk.data)
     ELSE Len(buf) = HEADER_SIZE + 8 + LengthAt(buf, HEADER_SIZE)

\* C5: in every container a transform writes, each chunk's length field is a
\* multiple of 4, the JSON chunk's data is the encoded JSON followed only by
\* spaces, the BIN chunk's data is the binary chunk followed only by zero
\* bytes, and each chunk has fewer than 4 bytes of padding.
C5_Aligned == Wrote => Aligned(out.buf, TextEncode(JSONStringify(out.json)), out.binChunk)

NeedsPadding(text, bin) == Len(text) % 4 # 0 /\ Len(bin) % 4 # 0

\* preprocessGLB wrote a container both of whose chunks had to be padded.
C5_Witness ==
  /\ op = "inline"
  /\ out.kind = "new"
  /\ NeedsPadding(TextEncode(JSONStringify(out.json)), out.binChunk.data)

\* n rounded up to a multiple of 4.
PaddedLength(n) == ((n + 3) \div 4) * 4

TotalOf(text, binChunk) ==
  HEADER_SIZE + 8 + PaddedLength(Len(text))
    + (IF binChunk.some THEN 8 + PaddedLength(Len(binChunk.data)) ELSE 0)

HeaderLength(buf, text, binChunk) ==
  /\ InRange(buf, 8, 4)
  /\ getUint32(buf, 8) = TotalOf(text, binChunk)
  /\ getUint32(buf, 8) = Len(buf)

\* C6: in every container a transform writes, the word at bytes 8-11 is
\* 12 + 8 + the padded JSON length, plus 8 + the padded binary length when a
\* binary chunk is written, and is the length of the returned buffer; when
\* the input had no BIN chunk, stripEmbeddedTextures writes header and JSON
\* chunk only.
C6_HeaderLength ==
  Wrote =>
    /\ HeaderLength(out.buf, TextEncode(JSONStringify(out.json)), out.binChunk)
    /\ out.binChunk.some = ParserOf(op, glbBuffer).binChunk.some

\* stripEmbeddedTextures wrote a container for an input without BIN chunk.
C6_Witness ==
  /\ op = "strip"
  /\ out.kind = "new"
  /\ ~out.binChunk.some
  /\ Len(out.buf) = HEADER_SIZE + 8 + getUint32(out.buf, HEADER_SIZE)

(***************************************************************************)
(* Buffers that are no containers.                                         *)
(***************************************************************************)
\* The little-endian word at offset off of b is w.
HasWord(b, off, w) == InRange(b, off, 4) /\ getUint32(b, off) = w

\* The first 4 bytes are not the magic, or the version word is not 2, or
\* the first chunk is not JSON-typed.
NotContainer(b) ==
  \/ ~HasWord(b, 0, GLB_MAGIC)
  \/ ~HasWord(b, 4, GLB_VERSION)
  \/ ~HasWord(b, HEADER_SIZE + 4, CHUNK_JSON)

\* C7, as stated: for a buffer of any length whose first 4 bytes are not the
\* magic, or whose version word is not 2, or whose first chunk is not
\* JSON-typed, stripEmbeddedTextures and preprocessGLB return the buffer
\* unchanged and raise no error.
C7_Passthrough ==
  (op \in {"strip", "inline"} /\ NotContainer(glbBuffer))
    => (out.kind = "same" /\ out.buf = glbBuffer)

\* The same for the buffers of at least 20 bytes (header and first chunk
\* header are all there).
C7_PassthroughOfWhole ==
  (op \in {"strip", "inline"} /\ NotContainer(glbBuffer) /\ Len(glbBuffer) >= 20)
    => (out.kind = "same" /\ out.buf = glbBuffer)

\* A transform raised an error on a buffer of 3 bytes.
C7_ShortBufferThrows ==
  /\ op \in {"strip", "inline"}
  /\ Len(glbBuffer) = 3
  /\ out.kind = "throw"

(***************************************************************************)
(* The length field of the header.                                         *)
(***************************************************************************)
\* The header's total length is not the size of the buffer.
WrongLength(b) == InRange(b, 8, 4) /\ getUint32(b, 8) # Len(b)

\* C8, as stated: a container whose header length field differs from the
\* size of the buffer is rejected before any chunk is read: none of the three
\* transforms decodes a chunk header of it, and none writes an output.
C8_LengthValidated ==
  (op \in Transforms /\ WrongLength(glbBuffer))
    => (out.reads = 0 /\ out.kind # "new")

\* A transform decoded both chunks of a container whose length field is 4
\* more than the size of the buffer, and wrote an output from them.
C8_WrongLengthDecoded ==
  /\ op \in Transforms
  /\ HasWord(glbBuffer, 8, Len(glbBuffer) + 4)
  /\ out.reads = 2
  /\ out.kind = "new"

(***************************************************************************)
(* The chunk table.                                                        *)
(***************************************************************************)
\* magic, version 2, and a JSON chunk that lies inside the buffer.
HasJsonChunk(b) ==
  /\ HasWord(b, 0, GLB_MAGIC)
  /\ HasWord(b, 4, GLB_VERSION)
  /\ HasWord(b, HEADER_SIZE + 4, CHUNK_JSON)
  /\ InRange(b, HEADER_SIZE + 8, getUint32(b, HEADER_SIZE))

\* Where the second chunk starts: 12 + 8 + jsonLength, not rounded.
SecondAt(b) == HEADER_SIZE + 8 + getUint32(b, HEADER_SIZE)

\* A second chunk lies inside the buffer, header and data.
HasSecondChunk(b) ==
  /\ InRange(b, SecondAt(b), 8)
  /\ InRange(b, SecondAt(b) + 8, getUint32(b, SecondAt(b)))

SecondEnd(b) == SecondAt(b) + 8 + getUint32(b, SecondAt(b))

\* The first chunk is read at offset 12.
FirstChunkRead(b, p, text) ==
  IF text.ok THEN p.st # "same" /\ (p.st = "ok" => p.json = text.v) ELSE p.st = "throw"

\* The second chunk is read at SecondAt; typed BIN, its data is the binary
\* chunk, else there is no binary chunk.
SecondChunkRead(b, p) ==
  /\ p.st = "ok"
  /\ p.reads = 2
  /\ IF HasWord(b, SecondAt(b) + 4, CHUNK_BIN)
     THEN p.binChunk = SomeBin(SubSeq(b, SecondAt(b) + 9, SecondEnd(b)))
     ELSE p.binChunk = NoBin

ChunksRead(b, p, text) ==
  /\ FirstChunkRead(b, p, text)
  /\ (text.ok /\ HasSecondChunk(b)) => SecondChunkRead(b, p)

\* Two outcomes are the same, a returned input buffer counting as such.
SameOutcome(o1, o2) ==
  /\ o1.kind = o2.kind
  /\ o1.kind = "new" => o1.buf = o2.buf

TransformOf(o, b) == IF o = "strip" THEN stripEmbeddedTextures(b) ELSE preprocessGLB(b)

\* C9: stripEmbeddedTextures and preprocessGLB read the first chunk at offset
\* 12 and the second at 12 + 8 + jsonLength (not rounded); a second chunk
\* typed BIN yields exactly its `length` data bytes as the binary chunk; what
\* follows the second chunk is ignored and causes no failure: the transform
\* does what it does on the buffer cut after the second chunk.
C9_ChunkTable ==
  (op \in {"strip", "inline"} /\ HasJsonChunk(glbBuffer))
    => /\ ChunksRead(glbBuffer, ParseGLB(glbBuffer),
                     JSONParse(TextDecode(SubSeq(glbBuffer, HEADER_SIZE + 9,
                                                 SecondAt(glbBuffer)))))
       /\ HasSecondChunk(glbBuffer) =>
            SameOutcome(out, TransformOf(op, SubSeq(glbBuffer, 1, SecondEnd(glbBuffer))))

\* A transform wrote an output for a container whose JSON chunk has an
\* unaligned length, whose second chunk is BIN and which has more chunks.
C9_Witness ==
  /\ op \in {"strip", "inline"}
  /\ HasJsonChunk(glbBuffer)
  /\ getUint32(glbBuffer, HEADER_SIZE) % 4 # 0
  /\ HasSecondChunk(glbBuffer)
  /\ HasWord(glbBuffer, SecondAt(glbBuffer) + 4, CHUNK_BIN)
  /\ InRange(glbBuffer, SecondEnd(glbBuffer), 8)
  /\ out.kind = "new"

(***************************************************************************)
(* Densify idempotence.                                                    *)
(***************************************************************************)
\* A second pass on the document and chunk of the first, in memory.
SecondPassSame(d, json, binChunk) ==
  /\ d.st = "ok"
  /\ d.json = json
  /\ d.binChunk = binChunk

\* A second pass on the written container gives the first pass's document
\* and binary chunk.
SecondRunSame(second, json, binChunk) ==
  /\ second.kind = "new"
  /\ DeepEqual(second.json, json)
  /\ second.binChunk = binChunk

\* The document with buffers[0].byteLength set to n.
WithByteLength(json, n) ==
  Put(json, K_buffers,
      JArr([Get(json, K_buffers)[2] EXCEPT ![1] = Put(@, K_byteLength, JNum(n))]))

\* A second pass on the written container gives the first pass's binary
\* chunk with its padding, and its document with that length.
SecondRunPadded(second, json, binChunk) ==
  /\ second.kind = "new"
  /\ second.binChunk.data = binChunk.data \o Fill(0, (4 - (Len(binChunk.data) % 4)) % 4)
  /\ DeepEqual(second.json, WithByteLength(json, Len(second.binChunk.data)))

\* C10, as stated: a second densify gives the document and the binary chunk
\* of the first, in memory and when the first result is written to a GLB and
\* parsed again in between.
C10_IdempotentIdentical ==
  DenseRan =>
    \A nan \in NaNModes :
      /\ SecondPassSame(Densify(out.json, out.binChunk, nan), out.json, out.binChunk)
      /\ SecondRunSame(sparse_to_dense(out.buf, nan), out.json, out.binChunk)

\* C10: a second densify in memory gives the document and the binary chunk
\* of the first; when the first result is written to a GLB and parsed again
\* in between, it gives the first's binary chunk followed by the zero bytes
\* that bring it to a multiple of 4, and the first's document with
\* buffers[0].byteLength set to that padded length: the same document and
\* chunk when the chunk's length is a multiple of 4.
C10_Idempotent ==
  DenseRan =>
    \A nan \in NaNModes :
      /\ SecondPassSame(Densify(out.json, out.binChunk, nan), out.json, out.binChunk)
      /\ SecondRunPadded(sparse_to_dense(out.buf, nan), out.json, out.binChunk)
      /\ (Len(out.binChunk.data) % 4 = 0) =>
           SecondRunSame(sparse_to_dense(out.buf, nan), out.json, out.binChunk)

HadSparse(json) ==
  \E a \in 1..Len(Elements(Get(json, K_accessors))) : WasSparse(json, a)

\* Densify converted an accessor and its binary chunk has an unaligned length.
C10_Witness ==
  /\ DenseRan
  /\ HadSparse(ReadChunks(glbBuffer).json)
  /\ Len(out.binChunk.data) % 4 # 0

(***************************************************************************)
(* Densify without sparse accessors (sparse_to_dense.js lines 13-59).      *)
(***************************************************************************)
NoSparse(json) == ~HadSparse(json)

ImagesOf(json) == Elements(Get(json, K_images))

NoEmbedded(json) ==
  \A i \in 1..Len(ImagesOf(json)) : ~WasEmbedded(ImagesOf(json)[i])

NoBufferViewImage(json) ==
  \A i \in 1..Len(ImagesOf(json)) : IsUndefined(Get(ImagesOf(json)[i], K_bufferView))

\* The document, the binary chunk and the written bytes are those of the input.
DenseUnchanged(first, o) ==
  NoSparse(first.json) =>
    /\ DeepEqual(o.json, first.json)
    /\ o.binChunk = first.binChunk
    /\ o.buf = DenseSerialize(first.json, first.binChunk.data)

\* The relocator hands back its input when the document has no sparse
\* accessor and none of its images satisfies `none`.
RelocateUnchanged(first, o, none) ==
  (first.st = "ok" /\ NoSparse(first.json) /\ none) => o.kind = "same"

DenseFrame(first, o) ==
  NoSparse(first.json) =>
    /\ o.json = WithByteLength(first.json, Len(first.binChunk.data))
    /\ o.binChunk = first.binChunk
    /\ o.buf = DenseSerialize(o.json, first.binChunk.data)
    /\ (Get(Get(first.json, K_buffers)[2][1], K_byteLength)
          = JNum(Len(first.binChunk.data)))
        => /\ DeepEqual(o.json, first.json)
           /\ o.buf = DenseSerialize(first.json, first.binChunk.data)

DeclaredLength(json) == Get(Get(json, K_buffers)[2][1], K_byteLength)

AccessorsOf(json) == Elements(Get(json, K_accessors))
BufferViewsOf(json) == Elements(Get(json, K_bufferViews))

\* Components per element of the four accessor types of the claim.
ComponentsOf(type) ==
  IF type = JStr(S_SCALAR) THEN 1
  ELSE IF type = JStr(S_VEC2) THEN 2
  ELSE IF type = JStr(S_VEC3) THEN 3
  ELSE IF type = JStr(S_VEC4) THEN 4
  ELSE 0

\* The accessor `after` reads from offset 0 of a buffer view that `views`
\* holds at an index not below `before`, byteLength bytes long.
PointsAtAppended(after, views, before, byteLength) ==
  /\ IsUndefined(Get(after, K_sparse))
  /\ Get(after, K_byteOffset) = JNum(0)
  /\ IsNum(Get(after, K_bufferView))
  /\ Get(after, K_bufferView)[2] \in before..(Len(views) - 1)
  /\ Get(views[Get(after, K_bufferView)[2] + 1], K_byteLength) = JNum(byteLength)

AccessorsRewritten(first, after) ==
  /\ Len(AccessorsOf(after)) = Len(AccessorsOf(first))
  /\ \A a \in 1..Len(AccessorsOf(first)) :
       /\ IsUndefined(Get(AccessorsOf(after)[a], K_sparse))
       /\ IF WasSparse(first, a)
          THEN PointsAtAppended(AccessorsOf(after)[a], BufferViewsOf(after),
                                Len(BufferViewsOf(first)),
                                Get(AccessorsOf(first)[a], K_count)[2]
                                  * ComponentsOf(Get(AccessorsOf(first)[a], K_type))
                                  * 4)
          ELSE AccessorsOf(after)[a] = AccessorsOf(first)[a]

\* C12: after densify, no accessor of the document has a `sparse` field; every
\* accessor that had one has byteOffset 0 and a bufferView that is the index
\* of a buffer view appended by this pass, of byteLength count x elementSize
\* x 4 (SCALAR 1, VEC2 2, VEC3 3, VEC4 4); the other accessors are unchanged.
C12_AccessorRewrite ==
  DenseRan => AccessorsRewritten(ReadChunks(glbBuffer).json, out.json)

\* Densify rewrote a VEC4 accessor and left another accessor alone.
C12_Witness ==
  /\ DenseRan
  /\ \E a \in 1..Len(AccessorsOf(ReadChunks(glbBuffer).json)) :
       /\ WasSparse(ReadChunks(glbBuffer).json, a)
       /\ Get(AccessorsOf(out.json)[a], K_type) = JStr(S_VEC4)
  /\ \E a \in 1..Len(AccessorsOf(ReadChunks(glbBuffer).json)) :
       ~WasSparse(ReadChunks(glbBuffer).json, a)

(***************************************************************************)
(* The buffer views under densify (sparse_to_dense.js lines 45-51).        *)
(***************************************************************************)
SparseAccessors(json) == { a \in 1..Len(AccessorsOf(json)) : WasSparse(json, a) }

BufferViewsAppended(first, after) ==
  /\ Len(BufferViewsOf(after)) = Len(BufferViewsOf(first)) + Cardinality(SparseAccessors(first))
  /\ \A v \in 1..Len(BufferViewsOf(first)) :
       /\ BufferViewsOf(after)[v] = BufferViewsOf(first)[v]
       /\ \A k \in {K_buffer, K_byteOffset, K_byteLength, K_byteStride} :
            Get(BufferViewsOf(after)[v], k) = Get(BufferViewsOf(first)[v], k)

\* C13: every buffer view present before densify is present afterwards at
\* the same index with the same buffer, byteOffset, byteLength and
\* byteStride; the pass only appends, one buffer view per accessor that had
\* a `sparse` field.
C13_BufferViewsStable ==
  DenseRan => BufferViewsAppended(ReadChunks(glbBuffer).json, out.json)

\* Densify converted two accessors of a document that has a buffer view
\* with a byteStride.
C13_Witness ==
  /\ DenseRan
  /\ Cardinality(SparseAccessors(ReadChunks(glbBuffer).json)) > 1
  /\ \E v \in 1..Len(BufferViewsOf(out.json)) :
       ~IsUndefined(Get(BufferViewsOf(out.json)[v], K_byteStride))

(***************************************************************************)
(* The declared buffer length (sparse_to_dense.js lines 45-53).            *)
(***************************************************************************)
\* count x elementSize x 4, summed over the sparse accessors 1..a.
RECURSIVE DenseBytes(_, _)
DenseBytes(json, a) ==
  IF a = 0 THEN 0
  ELSE DenseBytes(json, a - 1)
       + IF WasSparse(json, a)
         THEN Get(AccessorsOf(json)[a], K_count)[2]
                * ComponentsOf(Get(AccessorsOf(json)[a], K_type)) * 4
         ELSE 0

ByteLengthUpdated(first, o) ==
  /\ DeclaredLength(o.json) = JNum(Len(o.binChunk.data))
  /\ Len(o.binChunk.data)
       = Len(first.binChunk.data) + DenseBytes(first.json, Len(AccessorsOf(first.json)))

\* C14: after densify has processed all accessors, buffers[0].byteLength is
\* the byte length of the resulting unpadded binary chunk: the length of the
\* input's binary chunk plus count x elementSize x 4 for every accessor that
\* had a `sparse` field.
C14_ByteLength ==
  DenseRan => ByteLengthUpdated(ReadChunks(glbBuffer), out)

\* Densify appended dense data of an unaligned total length and changed the
\* declared length.
C14_Witness ==
  /\ DenseRan
  /\ HadSparse(ReadChunks(glbBuffer).json)
  /\ DeclaredLength(out.json) # DeclaredLength(ReadChunks(glbBuffer).json)
  /\ Len(out.binChunk.data) % 4 # 0
  /\ Len(out.buf) % 4 = 0

(***************************************************************************)
(* The strip-mode placeholder (glbPreprocess.ts lines 84-92 and 130-133).  *)
(***************************************************************************)
\* { name: "stripped_<i>" }, i in decimal.
StrippedName(i) == JObj(<< <<K_name, JStr(S_stripped \o Digits(i))>> >>)

PlaceholdersIn(first, after) ==
  /\ Len(ImagesOf(after)) = Len(ImagesOf(first))
  /\ \A i \in 1..Len(ImagesOf(first)) :
       ImagesOf(after)[i] = IF IsEmbedded(ImagesOf(first)[i])
                            THEN StrippedName(i - 1)
                            ELSE ImagesOf(first)[i]

RelocateRan == op \in {"strip", "inline"} /\ out.kind = "new"

HasUri(image) == ~IsUndefined(Get(image, K_uri))

UriImagesKept(first, after) ==
  \A i \in 1..Len(ImagesOf(first)) :
    HasUri(ImagesOf(first)[i]) =>
      /\ i <= Len(ImagesOf(after))
      /\ ImagesOf(after)[i] = ImagesOf(first)[i]

\* C16: for every image of the input that already has a `uri` (whether or not
\* it also carries a `bufferView` or a `mimeType`), the corresponding image
\* in the output of stripEmbeddedTextures and of preprocessGLB is
\* field-for-field equal to the input image.
C16_UriImagesUntouched ==
  RelocateRan => UriImagesKept(ParseGLB(glbBuffer).json, out.json)

\* preprocessGLB returned a document in which an image that had the uri
\* "a.png" beside a bufferView and a mimeType has another uri and no
\* bufferView.
C16_UriOverwritten ==
  /\ op = "inline" /\ out.kind = "new"
  /\ \E i \in 1..Len(ImagesOf(out.json)) :
       /\ Get(ImagesOf(ParseGLB(glbBuffer).json)[i], K_uri) = JStr(S_file)
       /\ ~IsUndefined(Get(ImagesOf(ParseGLB(glbBuffer).json)[i], K_bufferView))
       /\ Get(ImagesOf(out.json)[i], K_uri) # JStr(S_file)
       /\ IsUndefined(Get(ImagesOf(out.json)[i], K_bufferView))

(***************************************************************************)
(* The representations of a rewritten image (glbPreprocess.ts lines        *)
(* 130-133, preprocessGLB lines 101-111).                                  *)
(***************************************************************************)
HasViewAndType(image) ==
  ~IsUndefined(Get(image, K_bufferView)) /\ ~IsUndefined(Get(image, K_mimeType))

ExactlyOneRepresentation(image) == HasUri(image) # HasViewAndType(image)

\* The images of `after` that differ from the image of `first` at their index.
RewrittenImages(first, after) ==
  { i \in 1..Len(ImagesOf(after)) :
      i > Len(ImagesOf(first)) \/ ImagesOf(after)[i] # ImagesOf(first)[i] }

\* C17, as stated: in the output of the relocator, in either mode, every
\* image entry that the relocator produced or rewrote has exactly one of the
\* two representations, a `uri` or a `bufferView` with `mimeType`: never both
\* and never neither.
C17_ExactlyOneRepresentation ==
  RelocateRan =>
    \A i \in RewrittenImages(ParseGLB(glbBuffer).json, out.json) :
      ExactlyOneRepresentation(ImagesOf(out.json)[i])

IsDataUri(v) ==
  IsStr(v) /\ Len(v[2]) >= Len(S_data) /\ SubSeq(v[2], 1, Len(S_data)) = S_data

OneOrNone(mode, image, i) ==
  /\ IsUndefined(Get(image, K_bufferView))
  /\ IF mode = "inline"
     THEN IsDataUri(Get(image, K_uri))
     ELSE image = StrippedName(i - 1) /\ ~HasUri(image)

\* C17, amended: no image entry that the relocator rewrote has both
\* representations.  An entry rewritten by preprocessGLB has a data `uri` and
\* no `bufferView`; an entry rewritten by stripEmbeddedTextures is the
\* placeholder { name: "stripped_<i>" }, which has neither a `uri` nor a
\* `bufferView`.
C17_NeverBoth ==
  RelocateRan =>
    \A i \in RewrittenImages(ParseGLB(glbBuffer).json, out.json) :
      OneOrNone(op, ImagesOf(out.json)[i], i)

\* Strip rewrote an image into an entry that has neither representation.
C17_Witness ==
  /\ StripRan
  /\ \E i \in RewrittenImages(ParseGLB(glbBuffer).json, out.json) :
       /\ HasViewAndType(ImagesOf(ParseGLB(glbBuffer).json)[i])
       /\ ~HasUri(ImagesOf(out.json)[i])
       /\ ~HasViewAndType(ImagesOf(out.json)[i])

(***************************************************************************)
(* Containers without embedded images (glbPreprocess.ts lines 82-92,       *)
(* preprocessGLB lines 94-115).                                            *)
(***************************************************************************)
\* The transform returned the buffer it was given.
InputReturned(first, o) ==
  (first.st = "ok" /\ NoEmbedded(first.json)) => (o.kind = "same" /\ o.buf = glbBuffer)

\* C18: when the input container has no image with a `bufferView` and no
\* `uri` (no `images` array and an empty one included), stripEmbeddedTextures
\* and preprocessGLB return the input buffer itself, byte-for-byte unchanged,
\* without re-serialising.
C18_NoEmbeddedNoOp ==
  (op \in {"strip", "inline"} /\ out.kind # "throw") =>
    InputReturned(ParseGLB(glbBuffer), out)

\* preprocessGLB re-serialised a container none of whose images is embedded.
C18_Reserialised ==
  /\ op = "inline" /\ out.kind = "new"
  /\ Len(ImagesOf(ParseGLB(glbBuffer).json)) > 0
  /\ NoEmbedded(ParseGLB(glbBuffer).json)
  /\ out.buf # glbBuffer

(***************************************************************************)
(* The caller's buffer (glbPreprocess.ts lines 54-190, preprocessGLB lines *)
(* 53-164).                                                                *)
(***************************************************************************)
\* The returned buffer is what the stores make of a zero-filled buffer of
\* its length.
FreshlyBuilt(o) == Store(Fill(0, Len(o.buf)), StoresIn(o)) = o.buf

ViewPast(bv, n) ==
  /\ IsObj(bv)
  /\ IsNum(Get(bv, K_byteLength))
  /\ OrZero(Get(bv, K_byteOffset)) + Get(bv, K_byteLength)[2] > n

\* The image is one preprocessGLB converts and its bufferView is no index of
\* bufferViews, or the buffer view runs past the chunk.
MalformedImage(image, bufferViews, n) ==
  /\ IsConvertible(image)
  /\ \/ IsNullish(ArrayAt(bufferViews, Get(image, K_bufferView)))
     \/ ViewPast(ArrayAt(bufferViews, Get(image, K_bufferView)), n)

MalformedImages(first) ==
  /\ first.st = "ok" /\ first.binChunk.some
  /\ IsArr(Get(first.json, K_bufferViews))
  /\ \E i \in 1..Len(ImagesOf(first.json)) :
       MalformedImage(ImagesOf(first.json)[i], Get(first.json, K_bufferViews),
                      Len(first.binChunk.data))

\* Entry j of the sparse index list can be read and is not below count.
IndexPastCount(bin, r, o) ==
  \E j \in 0..(o.sparseCount - 1) :
    /\ InRange(bin, o.idxOff + j * IndexWidth(o.idxCompType), IndexWidth(o.idxCompType))
    /\ ReadIndex(bin, o.idxOff, j, o.idxCompType) >= r.count[2]

\* The sparse accessor resolved as r names a missing buffer view, or one that
\* runs past the chunk, or an element index that is not below count.
MalformedResolved(r, bin) ==
  IF (r.hasBase /\ IsNullish(r.bv)) \/ IsNullish(r.idxBv) \/ IsNullish(r.valBv)
  THEN TRUE
  ELSE \/ r.hasBase /\ ViewPast(r.bv, Len(bin))
       \/ ViewPast(r.idxBv, Len(bin))
       \/ ViewPast(r.valBv, Len(bin))
       \/ IsNum(r.count) /\ IndexPastCount(bin, r, Offsets(r))

MalformedAccessors(first) ==
  /\ first.st = "ok" /\ first.binChunk.some
  /\ \E a \in SparseAccessors(first.json) :
       MalformedResolved(ResolvedAt(first.json, a), first.binChunk.data)

\* C20: when a transform meets an out-of-range reference (an image or
\* accessor bufferView index, or a sparse indices or values bufferView index,
\* that is no index of bufferViews; a buffer view whose byte range extends
\* past the binary chunk; a sparse element index >= count), it fails with an
\* error and produces no output container, partial or truncated.
C20_MalformedFails ==
  /\ (op = "inline" /\ MalformedImages(ParseGLB(glbBuffer))) => out.kind = "throw"
  /\ (op = "dense" /\ MalformedAccessors(ReadChunks(glbBuffer))) => out.kind = "throw"

\* preprocessGLB returned a container for an image whose buffer view runs
\* past the binary chunk: the data URI holds fewer bytes than byteLength.
C20_TruncatedImage ==
  /\ op = "inline" /\ out.kind = "new"
  /\ MalformedImages(ParseGLB(glbBuffer))
  /\ \E i \in 1..Len(ImagesOf(out.json)) :
       /\ IsDataUri(Get(ImagesOf(out.json)[i], K_uri))
       /\ Len(Base64Decode(PayloadOf(Get(ImagesOf(out.json)[i], K_uri)[2])))
            < Get(ArrayAt(Get(out.json, K_bufferViews),
                          Get(ImagesOf(ParseGLB(glbBuffer).json)[i], K_bufferView)),
                  K_byteLength)[2]

(***************************************************************************)
(* The frame of preprocessGLB (lines 99-157).                              *)
(***************************************************************************)
\* The documents have the same top-level members in the same order, equal
\* in value except under the keys of `except`.
SameMembersBut(first, after, except) ==
  /\ IsObj(first) /\ IsObj(after)
  /\ Len(after[2]) = Len(first[2])
  /\ \A m \in 1..Len(first[2]) :
       /\ after[2][m][1] = first[2][m][1]
       /\ first[2][m][1] \notin except => after[2][m][2] = first[2][m][2]

\* The image is the input's but for its `uri` and its `bufferView`.
SameButUriAndView(before, after) ==
  Delete(Delete(after, K_uri), K_bufferView) = Delete(Delete(before, K_uri), K_bufferView)

InlineImagesFramed(first, after) ==
  /\ Len(ImagesOf(after)) = Len(ImagesOf(first))
  /\ \A i \in 1..Len(ImagesOf(first)) :
       IF IsConvertible(ImagesOf(first)[i])
       THEN SameButUriAndView(ImagesOf(first)[i], ImagesOf(after)[i])
       ELSE ImagesOf(after)[i] = ImagesOf(first)[i]

\* The BIN chunk of the written container is the input's binary chunk, then
\* zeros.
BinChunkKept(buf, bin) ==
  BinAligned(buf, HEADER_SIZE + 8 + LengthAt(buf, HEADER_SIZE), bin)

InlineFramed(first, o) ==
  /\ SameMembersBut(first.json, o.json, {K_images})
  /\ InlineImagesFramed(first.json, o.json)
  /\ BinChunkKept(o.buf, first.binChunk.data)

\* C21: the output document of preprocessGLB differs from the input document
\* only in the `uri` and `bufferView` fields of the images it converted;
\* textures, materials, accessors, bufferViews, buffers and every other
\* top-level field are equal to the input's, and the output BIN chunk is the
\* input binary chunk followed only by zero padding.
C21_InlineFrame ==
  (op = "inline" /\ out.kind = "new") => InlineFramed(ParseGLB(glbBuffer), out)

\* preprocessGLB converted the first image of two and kept the second, in a
\* document that has textures and materials.
C21_Witness ==
  /\ op = "inline" /\ out.kind = "new"
  /\ Len(ImagesOf(out.json)) = 2
  /\ IsDataUri(Get(ImagesOf(out.json)[1], K_uri))
  /\ ImagesOf(out.json)[2] = ImagesOf(ParseGLB(glbBuffer).json)[2]
  /\ IsArr(Get(out.json, K_textures)) /\ IsArr(Get(out.json, K_materials))

(***************************************************************************)
(* The frame of stripEmbeddedTextures (lines 94-133 and 161-189).          *)
(***************************************************************************)
\* The material without its five texture slots.
WithoutSlots(mat) ==
  Delete(Delete(Delete(
    IF IsObj(Get(mat, K_pbrMetallicRoughness))
    THEN Put(mat, K_pbrMetallicRoughness,
             Delete(Delete(Get(mat, K_pbrMetallicRoughness), K_baseColorTexture),
                    K_metallicRoughnessTexture))
    ELSE mat,
    K_normalTexture), K_occlusionTexture), K_emissiveTexture)

\* Slot k is gone if it named an embedded image's texture, else it is as it
\* was; the rest of the material is as it was.
MaterialFramed(before, after, textures, images) ==
  /\ WithoutSlots(after) = WithoutSlots(before)
  /\ \A k \in 1..5 :
       SlotsOf(after)[k] = IF NamesEmbedded(SlotsOf(before)[k], textures, images)
                           THEN Undefined
                           ELSE SlotsOf(before)[k]

MaterialsFramed(first, after) ==
  /\ Len(Elements(Get(after, K_materials))) = Len(Elements(Get(first, K_materials)))
  /\ \A m \in 1..Len(Elements(Get(first, K_materials))) :
       MaterialFramed(Get(first, K_materials)[2][m], Get(after, K_materials)[2][m],
                      Get(first, K_textures), Get(first, K_images))

StripFramed(first, o) ==
  /\ SameMembersBut(first.json, o.json, {K_images, K_materials})
  /\ PlaceholdersIn(first.json, o.json)
  /\ MaterialsFramed(first.json, o.json)
  /\ IF first.binChunk.some
     THEN BinChunkKept(o.buf, first.binChunk.data)
     ELSE Len(o.buf) = HEADER_SIZE + 8 + LengthAt(o.buf, HEADER_SIZE)

ViewStart(bv) == OrZero(Get(bv, K_byteOffset))
ViewEnd(bv) == ViewStart(bv) + OrZero(Get(bv, K_byteLength))

Overlap(p, v) == Max(ViewStart(p), ViewStart(v)) < Min(ViewEnd(p), ViewEnd(v))

\* The views after the first `before` lie back to back from byte n to the
\* end of the chunk bin.
BackToBack(views, before, n, bin) ==
  /\ \A v \in (before + 1)..Len(views) :
       ViewStart(views[v]) = IF v = before + 1 THEN n ELSE ViewEnd(views[v - 1])
  /\ Len(bin) = IF Len(views) > before THEN ViewEnd(views[Len(views)]) ELSE n

\* The accessors that were sparse took the appended views in their order.
InAccessorOrder(first, after) ==
  \A a, b \in SparseAccessors(first) :
    a < b => Get(AccessorsOf(after)[a], K_bufferView)[2]
               < Get(AccessorsOf(after)[b], K_bufferView)[2]

\* No appended view overlaps another, and none overlaps a view that was
\* there before and satisfies `which`.
NoOverlap(views, before, which(_)) ==
  \A v \in (before + 1)..Len(views) :
    /\ \A w \in (before + 1)..Len(views) : w # v => ~Overlap(views[w], views[v])
    /\ \A p \in 1..before :
         (IsObj(views[p]) /\ which(views[p])) => ~Overlap(views[p], views[v])

Appended(first, o, which(_)) ==
  /\ SubSeq(o.binChunk.data, 1, Len(first.binChunk.data)) = first.binChunk.data
  /\ BackToBack(BufferViewsOf(o.json), Len(BufferViewsOf(first.json)),
                Len(first.binChunk.data), o.binChunk.data)
  /\ InAccessorOrder(first.json, o.json)
  /\ NoOverlap(BufferViewsOf(o.json), Len(BufferViewsOf(first.json)), which)
  /\ \A v \in (Len(BufferViewsOf(first.json)) + 1)..Len(BufferViewsOf(o.json)) :
       ViewEnd(BufferViewsOf(o.json)[v]) <= Len(o.binChunk.data)

AnyView(bv) == TRUE

InsideInput(bv) == ViewEnd(bv) <= Len(ReadChunks(glbBuffer).binChunk.data)

PairPatterns == << <<"-incr", "-decr">>, <<"-up", "-down">> >>

\* name.endsWith(suffix)
EndsWith(name, suffix) == Len(name) >= 1 /\ name[Len(name)] = suffix

\* name.slice(0, -suffix.length), for a name that ends with the suffix
SliceSuffix(name) == SubSeq(name, 1, Len(name) - 1)

\* name in dictionary
HasTarget(dictionary, name) ==
  \E i \in 1..Len(dictionary) : dictionary[i][1] = name

\* dictionary[name], for a name in the dictionary
TargetIndex(dictionary, name) ==
  dictionary[CHOOSE i \in 1..Len(dictionary) : dictionary[i][1] = name][2]

\* CATEGORY_KEYWORDS, the keywords that the names of the model can contain:
\* <<category, part, hyphen>> stands for the keyword made of the part and,
\* when hyphen is TRUE, the hyphen after it ("nose-" but "lips").
CATEGORY_KEYWORDS ==
  << <<"Nose", "nose", TRUE>>, <<"Mouth", "lips", FALSE>> >>

\* lower.includes(keyword)
IncludesKeyword(name, kw) ==
  \E i \in 1..Len(name) : name[i] = kw[2] /\ (kw[3] => i < Len(name))

classifyTarget(name) ==
  IF \E k \in 1..Len(CATEGORY_KEYWORDS) : IncludesKeyword(name, CATEGORY_KEYWORDS[k])
  THEN CATEGORY_KEYWORDS[CHOOSE k \in 1..Len(CATEGORY_KEYWORDS) :
         /\ IncludesKeyword(name, CATEGORY_KEYWORDS[k])
         /\ \A j \in 1..(k - 1) : ~IncludesKeyword(name, CATEGORY_KEYWORDS[j])][1]
  ELSE "Other"

\* currentValues[name] ?? 0
ValueOr0(currentValues, name) ==
  IF name \in DOMAIN currentValues THEN currentValues[name] ELSE 0

\* One pass of the pairPatterns loop for one pattern: "pos" when the name is
\* the positive one of a pair, "neg" when it is the negative one, "next"
\* when the loop goes on to the next pattern.
TryPattern(name, dictionary, p) ==
  IF EndsWith(name, PairPatterns[p][1])
  THEN IF HasTarget(dictionary, Append(SliceSuffix(name), PairPatterns[p][2]))
       THEN "pos" ELSE "next"
  ELSE IF EndsWith(name, PairPatterns[p][2])
       THEN IF HasTarget(dictionary, Append(SliceSuffix(name), PairPatterns[p][1]))
            THEN "neg" ELSE "next"
       ELSE "next"

\* The pairPatterns loop: <<what, pattern>> of the first pattern that breaks.
PairingOf(name, dictionary) ==
  IF TryPattern(name, dictionary, 1) # "next"
  THEN <<TryPattern(name, dictionary, 1), 1>>
  ELSE IF TryPattern(name, dictionary, 2) # "next"
       THEN <<TryPattern(name, dictionary, 2), 2>>
       ELSE <<"none", 0>>

PairedTarget(name, dictionary, currentValues, p) ==
  [ name |-> SliceSuffix(name),
    index |-> TargetIndex(dictionary, name),
    value |-> ValueOr0(currentValues, name),
    pairedDecrIndex |->
      TargetIndex(dictionary, Append(SliceSuffix(name), PairPatterns[p][2])),
    incrName |-> name,
    decrName |-> Append(SliceSuffix(name), PairPatterns[p][2]) ]

SoloTarget(name, dictionary, currentValues) ==
  [ name |-> name,
    index |-> TargetIndex(dictionary, name),
    value |-> ValueOr0(currentValues, name) ]

\* categoryMap is the Map as the sequence of its <<category, targets>>
\* entries in insertion order.
HasCategory(categoryMap, category) ==
  \E i \in 1..Len(categoryMap) : categoryMap[i][1] = category

\* if (!categoryMap.has(category)) categoryMap.set(category, [])
WithCategory(categoryMap, category) ==
  IF HasCategory(categoryMap, category) THEN categoryMap
  ELSE Append(categoryMap, <<category, <<>> >>)

\* categoryMap.get(category)!.push(target)
PushTarget(categoryMap, category, target) ==
  [ i \in 1..Len(categoryMap) |->
      IF categoryMap[i][1] = category
      THEN <<category, Append(categoryMap[i][2], target)>>
      ELSE categoryMap[i] ]

\* The body of the loop over the names, for one name.
VisitName(st, name, dictionary, currentValues, pairing) ==
  IF name \in st.handled THEN st
  ELSE
    CASE pairing[1] = "pos" ->
           [ handled |-> st.handled \cup
               {name, Append(SliceSuffix(name), PairPatterns[pairing[2]][2])},
             categoryMap |->
               PushTarget(WithCategory(st.categoryMap, classifyTarget(name)),
                          classifyTarget(name),
                          PairedTarget(name, dictionary, currentValues, pairing[2])) ]
      [] pairing[1] = "neg" ->
           [ handled |-> st.handled,
             categoryMap |-> WithCategory(st.categoryMap, classifyTarget(name)) ]
      [] OTHER ->
           [ handled |-> st.handled \cup {name},
             categoryMap |->
               PushTarget(WithCategory(st.categoryMap, classifyTarget(name)),
                          classifyTarget(name),
                          SoloTarget(name, dictionary, currentValues)) ]

RECURSIVE VisitNames(_, _, _, _)
VisitNames(st, i, dictionary, currentValues) ==
  IF i > Len(dictionary) THEN st
  ELSE VisitNames(VisitName(st, dictionary[i][1], dictionary, currentValues,
                            PairingOf(dictionary[i][1], dictionary)),
                  i + 1, dictionary, currentValues)

\* a.localeCompare(b) < 0 on the names of the model: part by part in the
\* order of PartRank, a proper prefix first.
PartRank(part) ==
  CASE part = "-decr" -> 1 [] part = "-down" -> 2 [] part = "-incr" -> 3
    [] part = "-up" -> 4 [] part = "lips" -> 5 [] part = "misc" -> 6
    [] part = "nose" -> 7 [] OTHER -> 8

RECURSIVE ComesBefore(_, _, _)
ComesBefore(a, b, i) ==
  IF i > Len(b) THEN FALSE
  ELSE IF i > Len(a) THEN TRUE
  ELSE IF a[i] = b[i] THEN ComesBefore(a, b, i + 1)
  ELSE PartRank(a[i]) < PartRank(b[i])

\* targets.sort((a, b) => a.name.localeCompare(b.name)): a stable sort
RECURSIVE SortTargets(_)
SortTargets(targets) ==
  IF Len(targets) <= 1 THEN targets
  ELSE LET last == targets[Len(targets)]
           front == SortTargets(SubSeq(targets, 1, Len(targets) - 1))
           keep == Cardinality({ i \in 1..Len(front) :
                                   ~ComesBefore(last.name, front[i].name, 1) })
       IN SubSeq(front, 1, keep) \o <<last>> \o SubSeq(front, keep + 1, Len(front))

SortedMap(categoryMap) ==
  [ i \in 1..Len(categoryMap) |->
      <<categoryMap[i][1], SortTargets(categoryMap[i][2])>> ]

MorphCategoryOf(entry) ==
  [ name |-> entry[1], targets |-> entry[2], expanded |-> FALSE ]

\* The entries of the map that are pushed onto the result: those with targets.
NonEmptyEntries(entries) == SelectSeq(entries, LAMBDA e : Len(e[2]) > 0)

\* The known categories in the order of CATEGORY_KEYWORDS.
KnownEntries(categoryMap) ==
  LET RECURSIVE From(_)
      From(k) ==
        IF k > Len(CATEGORY_KEYWORDS) THEN <<>>
        ELSE SelectSeq(categoryMap, LAMBDA e : e[1] = CATEGORY_KEYWORDS[k][1])
               \o From(k + 1)
  IN From(1)

\* What is left in the map after the known categories with targets were
\* deleted from it.
RemainingEntries(categoryMap) ==
  SelectSeq(categoryMap, LAMBDA e :
    ~(/\ \E k \in 1..Len(CATEGORY_KEYWORDS) : CATEGORY_KEYWORDS[k][1] = e[1]
      /\ Len(e[2]) > 0))

OrderedCategories(categoryMap) ==
  LET entries == NonEmptyEntries(KnownEntries(categoryMap))
                   \o NonEmptyEntries(RemainingEntries(categoryMap))
  IN [ i \in 1..Len(entries) |-> MorphCategoryOf(entries[i]) ]

categorizeMorphTargets(dictionary, currentValues) ==
  OrderedCategories(SortedMap(
    VisitNames([handled |-> {}, categoryMap |-> <<>>], 1, dictionary,
               currentValues).categoryMap))

(***************************************************************************)
(* categorizeMorphTargets on its own: the dictionaries it is given are the *)
(* sequences of up to MaxKeys distinct names over TargetBases, each with   *)
(* its position as index, as a mesh's morphTargetDictionary has them.      *)
(***************************************************************************)
MaxKeys == 4

TargetBases == {"nose", "lips"}

TargetNames ==
  { <<b>> : b \in TargetBases }
    \cup { <<b, s>> : b \in TargetBases, s \in {"-incr", "-decr", "-up", "-down"} }

Dictionaries ==
  { [ i \in 1..Len(ks) |-> <<ks[i], i - 1>> ] :
      ks \in { s \in UNION { [1..n -> TargetNames] : n \in 1..MaxKeys } :
                 \A i, j \in 1..Len(s) : i # j => s[i] # s[j] } }

\* {} as currentValues
NoValues == [ n \in {} |-> 0 ]

GlbIdle ==
  /\ glbBuffer = <<>>
  /\ op = "none"
  /\ out = NotRun

InitCategorize ==
  /\ GlbIdle
  /\ morphTargetDictionary \in Dictionaries
  /\ categories = <<>>
  /\ MorphIdle
  /\ MaskIdle
  /\ ClothingIdle
  /\ AnimIdle

Categorize ==
  /\ categories = <<>>
  /\ categories' = categorizeMorphTargets(morphTargetDictionary, NoValues)
  /\ UNCHANGED <<glbVars, morphTargetDictionary, morphVars, maskVars, clothingVars, animVars>>

NextCategorize == Categorize

SpecCategorize == InitCategorize /\ [][NextCategorize]_vars

\* The positions <<category, target>> of the output targets.
TargetSlots(cats) ==
  { <<c, i>> : c \in 1..Len(cats), i \in 1..MaxKeys } \cap
  UNION { { <<c, i>> : i \in 1..Len(cats[c].targets) } : c \in 1..Len(cats) }

TargetAt(cats, slot) == cats[slot[1]].targets[slot[2]]

IsPairedTarget(t) == "incrName" \in DOMAIN t

\* The output targets that stand for a key: the solo target of that name,
\* or a paired entry with the key as incrName or decrName.
Representing(cats, key) ==
  { slot \in TargetSlots(cats) :
      IF IsPairedTarget(TargetAt(cats, slot))
      THEN key \in {TargetAt(cats, slot).incrName, TargetAt(cats, slot).decrName}
      ELSE TargetAt(cats, slot).name = key }

KeysOf(dictionary) == { dictionary[i][1] : i \in 1..Len(dictionary) }

EveryKeyOnce(dictionary, cats) ==
  /\ \A key \in KeysOf(dictionary) : Cardinality(Representing(cats, key)) = 1
  /\ \A slot \in TargetSlots(cats) :
       IF IsPairedTarget(TargetAt(cats, slot))
       THEN /\ TargetAt(cats, slot).incrName \in KeysOf(dictionary)
            /\ TargetAt(cats, slot).decrName \in KeysOf(dictionary)
            /\ TargetAt(cats, slot).incrName # TargetAt(cats, slot).decrName
       ELSE TargetAt(cats, slot).name \in KeysOf(dictionary)

NoEmptyCategory(cats) == \A c \in 1..Len(cats) : Len(cats[c].targets) > 0

DistinctNames(cats) ==
  \A s, t \in TargetSlots(cats) :
    s # t => TargetAt(cats, s).name # TargetAt(cats, t).name

\* C26: categorizeMorphTargets partitions its input: every key of the
\* dictionary is represented in exactly one output target (solo, or incrName
\* or decrName of one paired entry), no output category is empty, and the
\* name fields of the output targets are pairwise distinct.
C26_Partition ==
  categories # <<>> =>
    /\ EveryKeyOnce(morphTargetDictionary, categories)
    /\ NoEmptyCategory(categories)
    /\ DistinctNames(categories)

\* The part of C26 that the code keeps: every key once, no empty category.
C26_KeysAndCategories ==
  categories # <<>> =>
    /\ EveryKeyOnce(morphTargetDictionary, categories)
    /\ NoEmptyCategory(categories)

\* The keys "nose", "nose-incr", "nose-decr" were categorized: the solo
\* target and the paired entry are both named "nose".
C26_SharedName ==
  /\ KeysOf(morphTargetDictionary) = { <<"nose">>, <<"nose", "-incr">>, <<"nose", "-decr">> }
  /\ categories # <<>>
  /\ \E s, t \in TargetSlots(categories) :
       /\ s # t
       /\ TargetAt(categories, s).name = <<"nose">>
       /\ TargetAt(categories, t).name = <<"nose">>
       /\ IsPairedTarget(TargetAt(categories, s))
       /\ ~IsPairedTarget(TargetAt(categories, t))

(***************************************************************************)
(* The morph hook (src/hooks/useMorphTargets.ts).  morphState is the       *)
(* object as the sequence of its <<name, value>> members in insertion      *)
(* order; slider values are counted in slider steps.  A mesh's             *)
(* morphTargetInfluences is the array indexed by the dictionary's indices  *)
(* (position index + 1).  The scene graph is the parent of each object,    *)
(* JNull for a detached one.                                               *)
(***************************************************************************)
Model == <<"model">>
Human == <<"body", "Human">>
Eyes == <<"body", "Eyes">>
Brows == <<"body", "Brows">>
Lashes == <<"body", "Lashes">>

\* The meshes of the body model in traversal order.
BodyMeshes == <<Human, Eyes, Brows, Lashes>>

\* A dictionary with the names at the indices 0, 1, ...
DictionaryOf(names) == [ i \in 1..Len(names) |-> <<names[i], i - 1>> ]

\* The morph targets of the clothing GLBs; boots have none.
ItemDictionary(item) ==
  CASE item = "Sweater" ->
         DictionaryOf(<< <<"nose", "-incr">>, <<"nose", "-decr">>, <<"lips">> >>)
    [] item = "Tshirt" ->
         DictionaryOf(<< <<"nose", "-up">>, <<"nose", "-down">>,
                         <<"nose", "-incr">>, <<"nose", "-decr">> >>)
    [] item = "Pants" -> DictionaryOf(<< <<"lips">>, <<"nose", "-decr">> >>)
    [] OTHER -> Undefined

\* mesh.morphTargetDictionary: a clothing mesh <<"mesh", item, load>> has the
\* targets of its GLB.
MeshDictionary(mesh) ==
  CASE mesh = Human ->
         DictionaryOf(<< <<"nose", "-incr">>, <<"nose", "-decr">>, <<"lips">> >>)
    [] mesh = Brows ->
         DictionaryOf(<< <<"lips">>, <<"nose", "-up">>, <<"nose", "-down">> >>)
    [] mesh = Lashes ->
         DictionaryOf(<< <<"nose", "-up">>, <<"nose", "-down">>,
                         <<"nose", "-incr">>, <<"nose", "-decr">> >>)
    [] mesh[1] = "mesh" -> ItemDictionary(mesh[2])
    [] OTHER -> Undefined

\* mesh.morphTargetDictionary && mesh.morphTargetInfluences
IsMorphed(mesh, influences) ==
  MeshDictionary(mesh) # Undefined /\ mesh \in DOMAIN influences

\* influences.fill(0), also the array a freshly parsed mesh has
ZeroInfluences(mesh) == [ i \in 1..Len(MeshDictionary(mesh)) |-> 0 ]

\* Math.max(0, value)
Max0(value) == IF value > 0 THEN value ELSE 0

\* The pattern that the loop over [posSuffix, negSuffix] applies for the
\* target name on a dictionary: the first one with both names in it, 0 when
\* there is none.
AppliedPattern(dictionary, targetName) ==
  IF /\ HasTarget(dictionary, Append(targetName, PairPatterns[1][1]))
     /\ HasTarget(dictionary, Append(targetName, PairPatterns[1][2]))
  THEN 1
  ELSE IF /\ HasTarget(dictionary, Append(targetName, PairPatterns[2][1]))
          /\ HasTarget(dictionary, Append(targetName, PairPatterns[2][2]))
       THEN 2
       ELSE 0

\* The negative target driven with the sign of the slider kept.
NegInfluenceSigned(value) == 0 - value

\* mesh.morphTargetInfluences[negIdx] = Math.max(0, -value)
NegInfluence(value) == Max0(0 - value)

\* The body of the loop over the meshes for one mesh: the paired targets
\* when the dictionary has both, the target of that name otherwise.
ApplyTarget(dictionary, array, targetName, value, p) ==
  IF p # 0
  THEN [ array EXCEPT
           ![TargetIndex(dictionary, Append(targetName, PairPatterns[p][1])) + 1] =
             Max0(value),
           ![TargetIndex(dictionary, Append(targetName, PairPatterns[p][2])) + 1] =
             NegInfluence(value) ]
  ELSE IF HasTarget(dictionary, targetName)
       THEN [ array EXCEPT ![TargetIndex(dictionary, targetName) + 1] = value ]
       ELSE array

\* The loop over meshesRef.current: meshes without dictionary or influences
\* are skipped.
ApplyToMeshes(influences, meshes, targetName, value) ==
  [ mesh \in DOMAIN influences |->
      IF (\E i \in 1..Len(meshes) : meshes[i] = mesh) /\ IsMorphed(mesh, influences)
      THEN ApplyTarget(MeshDictionary(mesh), influences[mesh], targetName, value,
                       AppliedPattern(MeshDictionary(mesh), targetName))
      ELSE influences[mesh] ]

HasKey(state, name) == \E i \in 1..Len(state) : state[i][1] = name

\* ({ ...prev, [targetName]: value })
SetKey(state, name, value) ==
  IF HasKey(state, name)
  THEN [ i \in 1..Len(state) |->
           IF state[i][1] = name THEN <<name, value>> ELSE state[i] ]
  ELSE Append(state, <<name, value>>)

\* initFromScene: the meshes of the scene that have a dictionary.
MorphedOf(meshes) == SelectSeq(meshes, LAMBDA mesh : MeshDictionary(mesh) # Undefined)

\* initFromScene: allTargets, the first index of every name.
RECURSIVE MergeTargets(_, _, _)
MergeTargets(allTargets, dictionary, i) ==
  IF i > Len(dictionary) THEN allTargets
  ELSE MergeTargets(IF HasTarget(allTargets, dictionary[i][1]) THEN allTargets
                    ELSE Append(allTargets, dictionary[i]),
                    dictionary, i + 1)

RECURSIVE AllTargets(_, _, _)
AllTargets(allTargets, meshes, i) ==
  IF i > Len(meshes) THEN allTargets
  ELSE AllTargets(MergeTargets(allTargets, MeshDictionary(meshes[i]), 1),
                  meshes, i + 1)

\* The targets of all categories in order.
RECURSIVE TargetsOf(_, _)
TargetsOf(cats, c) ==
  IF c > Len(cats) THEN <<>> ELSE cats[c].targets \o TargetsOf(cats, c + 1)

\* initFromScene: initialState[target.name] = 0 for every target
RECURSIVE InitialState(_, _, _)
InitialState(state, targets, i) ==
  IF i > Len(targets) THEN state
  ELSE InitialState(SetKey(state, targets[i].name, 0), targets, i + 1)

\* resetAll: every key of morphState at 0
ResetState(state) == [ i \in 1..Len(state) |-> <<state[i][1], 0>> ]

\* resetAll: every target of every category at value 0
ResetCategories(cats) ==
  [ c \in 1..Len(cats) |->
      [ cats[c] EXCEPT !.targets =
          [ i \in 1..Len(cats[c].targets) |->
              [ cats[c].targets[i] EXCEPT !.value = 0 ] ] ] ]

\* resetAll: mesh.morphTargetInfluences.fill(0) on every registered mesh
FillRegistered(influences, meshes) ==
  [ mesh \in DOMAIN influences |->
      IF \E i \in 1..Len(meshes) : meshes[i] = mesh
      THEN ZeroInfluences(mesh) ELSE influences[mesh] ]

\* addMeshes: newMeshes.filter(m => m.morphTargetDictionary && m.morphTargetInfluences)
MorphedIn(newMeshes, influences) ==
  SelectSeq(newMeshes, LAMBDA mesh : IsMorphed(mesh, influences))

\* addMeshes: meshesRef.current.filter(m => m.parent !== null)
AliveIn(meshes, parents) ==
  SelectSeq(meshes, LAMBDA mesh : parents[mesh] # JNull)

\* addMeshes: meshesRef.current = [...alive, ...morphed]
addMeshes(meshes, newMeshes, influences, parents) ==
  AliveIn(meshes, parents) \o MorphedIn(newMeshes, influences)

\* syncMorphState: Object.entries(morphState) applied in order to every
\* registered mesh; state is the morphState the callback closed over.
RECURSIVE syncMorphState(_, _, _, _)
syncMorphState(influences, meshes, state, i) ==
  IF i > Len(state) THEN influences
  ELSE syncMorphState(ApplyToMeshes(influences, meshes, state[i][1], state[i][2]),
                      meshes, state, i + 1)

(***************************************************************************)
(* The hook on its own: the body scene is loaded, and the hook's functions *)
(* are called in any order with any of CallNames, which are the slider     *)
(* names and the names of single targets of a pair.                        *)
(***************************************************************************)
CallNames == { <<"nose">>, <<"lips">>, <<"nose", "-decr">>, <<"nose", "-up">> }

CallValues == {-1, 0, 1}

\* The body scene as GLTFLoader hands it over: every mesh below the model,
\* every influence at 0.
BodyLoaded ==
  /\ parent = [ mesh \in { BodyMeshes[i] : i \in 1..Len(BodyMeshes) } |-> Model ]
  /\ morphTargetInfluences =
       [ mesh \in { MorphedOf(BodyMeshes)[i] : i \in 1..Len(MorphedOf(BodyMeshes)) }
           |-> ZeroInfluences(mesh) ]

InitMorph ==
  /\ GlbIdle
  /\ morphTargetDictionary = <<>>
  /\ categories = <<>>
  /\ morphState = <<>>
  /\ meshesRef = <<>>
  /\ BodyLoaded
  /\ MaskIdle
  /\ ClothingIdle
  /\ AnimIdle

\* initFromScene(scene): what it assigns
initFromScene(meshes) ==
  /\ meshesRef' = MorphedOf(meshes)
  /\ morphTargetDictionary' = AllTargets(<<>>, MorphedOf(meshes), 1)
  /\ categories' = categorizeMorphTargets(morphTargetDictionary', NoValues)
  /\ morphState' = InitialState(<<>>, TargetsOf(categories', 1), 1)

\* a call of initFromScene(scene)
InitFromScene ==
  /\ meshesRef = <<>>
  /\ initFromScene(BodyMeshes)
  /\ UNCHANGED <<glbVars, morphTargetInfluences, parent, maskVars, clothingVars, animVars>>

\* setMorphValue(targetName, value)
SetMorphValue(targetName, value) ==
  /\ morphState' = SetKey(morphState, targetName, value)
  /\ morphTargetInfluences' =
       ApplyToMeshes(morphTargetInfluences, meshesRef, targetName, value)
  /\ UNCHANGED <<glbVars, sliderVars, meshesRef, parent, maskVars, clothingVars, animVars>>

\* resetAll()
ResetAll ==
  /\ morphState' = ResetState(morphState)
  /\ categories' = ResetCategories(categories)
  /\ morphTargetInfluences' = FillRegistered(morphTargetInfluences, meshesRef)
  /\ UNCHANGED <<glbVars, morphTargetDictionary, meshesRef, parent, maskVars, clothingVars, animVars>>

AnyMorphValue == \E targetName \in CallNames, value \in CallValues :
                   SetMorphValue(targetName, value)

NextMorph == InitFromScene \/ AnyMorphValue \/ ResetAll

SpecMorph == InitMorph /\ [][NextMorph]_vars

IsRegistered(mesh) == \E i \in 1..Len(meshesRef) : meshesRef[i] = mesh

BothIn(dictionary, targetName, p) ==
  /\ HasTarget(dictionary, Append(targetName, PairPatterns[p][1]))
  /\ HasTarget(dictionary, Append(targetName, PairPatterns[p][2]))

\* The pairs of a dictionary: <<positive name, negative name>>.
PairsIn(dictionary) ==
  { <<Append(SliceSuffix(dictionary[i][1]), PairPatterns[p][1]),
      Append(SliceSuffix(dictionary[i][1]), PairPatterns[p][2])>> :
      i \in 1..Len(dictionary), p \in 1..2 }
    \cap (KeysOf(dictionary) \X KeysOf(dictionary))

InfluenceOf(influences, mesh, name) ==
  influences[mesh][TargetIndex(MeshDictionary(mesh), name) + 1]

\* The pair is driven as a pair: both influences >= 0, at most one non-zero.
WellFormedPair(influences, mesh, pair) ==
  /\ InfluenceOf(influences, mesh, pair[1]) >= 0
  /\ InfluenceOf(influences, mesh, pair[2]) >= 0
  /\ InfluenceOf(influences, mesh, pair[1]) = 0
       \/ InfluenceOf(influences, mesh, pair[2]) = 0

\* The influences of the pair of pattern p are max(0, v) and max(0, -v).
PairSplit(influences, mesh, targetName, value, p) ==
  /\ InfluenceOf(influences, mesh, Append(targetName, PairPatterns[p][1])) =
       (IF value > 0 THEN value ELSE 0)
  /\ InfluenceOf(influences, mesh, Append(targetName, PairPatterns[p][2])) =
       (IF value < 0 THEN 0 - value ELSE 0)

\* The targets of the dictionary other than the given names kept their
\* influences.
OthersKept(before, after, mesh, names) ==
  \A i \in 1..Len(MeshDictionary(mesh)) :
    MeshDictionary(mesh)[i][1] \notin names => after[mesh][i] = before[mesh][i]

PairNames(targetName, p) ==
  { Append(targetName, PairPatterns[p][1]), Append(targetName, PairPatterns[p][2]) }

\* What the claim says of one setMorphValue(targetName, value) on one mesh:
\* either pattern with both names in the dictionary is split.
EitherPatternSplit(before, after, mesh, targetName, value) ==
  /\ \A p \in 1..2 :
       BothIn(MeshDictionary(mesh), targetName, p) =>
         PairSplit(after, mesh, targetName, value, p)
  /\ \/ \E p \in 1..2 : BothIn(MeshDictionary(mesh), targetName, p)
     \/ ~HasTarget(MeshDictionary(mesh), targetName)
     \/ InfluenceOf(after, mesh, targetName) = value
  /\ OthersKept(before, after, mesh,
       IF \E p \in 1..2 : BothIn(MeshDictionary(mesh), targetName, p)
       THEN UNION { PairNames(targetName, p) : p \in 1..2 }
       ELSE {targetName})

\* What the code does on one mesh: the first pattern with both names in the
\* dictionary is split and nothing else changes.
FirstPatternSplit(before, after, mesh, targetName, value) ==
  IF BothIn(MeshDictionary(mesh), targetName, 1)
  THEN /\ PairSplit(after, mesh, targetName, value, 1)
       /\ OthersKept(before, after, mesh, PairNames(targetName, 1))
  ELSE IF BothIn(MeshDictionary(mesh), targetName, 2)
  THEN /\ PairSplit(after, mesh, targetName, value, 2)
       /\ OthersKept(before, after, mesh, PairNames(targetName, 2))
  ELSE IF HasTarget(MeshDictionary(mesh), targetName)
  THEN /\ InfluenceOf(after, mesh, targetName) = value
       /\ OthersKept(before, after, mesh, {targetName})
  ELSE after[mesh] = before[mesh]

RegisteredMorphed ==
  { mesh \in DOMAIN morphTargetInfluences : IsRegistered(mesh) }

\* morphState holds no non-zero value under one of the pair's own names.
NotDrivenAlone(state, pair) ==
  \A i \in 1..Len(state) : state[i][1] \in {pair[1], pair[2]} => state[i][2] = 0

\* C25 as stated: setMorphValue(targetName, v) splits v over the pair
\* targetName-incr/-decr (or -up/-down) of every registered mesh that has
\* both, sets a solo target directly and leaves the other targets alone, so
\* that after any sequence of setMorphValue and resetAll calls both
\* influences of every pair are >= 0 and at most one is non-zero.
C25_PairedEitherPattern ==
  [][ /\ \A targetName \in CallNames, value \in CallValues :
           SetMorphValue(targetName, value) =>
             \A mesh \in RegisteredMorphed :
               EitherPatternSplit(morphTargetInfluences, morphTargetInfluences',
                                  mesh, targetName, value)
      /\ \A mesh \in RegisteredMorphed :
           \A pair \in PairsIn(MeshDictionary(mesh)) :
             WellFormedPair(morphTargetInfluences', mesh, pair) ]_vars

\* C25, amended: setMorphValue(targetName, v) splits v over the first of the
\* pairs -incr/-decr, -up/-down that the mesh's dictionary has both names
\* of, sets the solo target targetName when there is no such pair, and
\* leaves every other influence alone; after any sequence of setMorphValue
\* and resetAll calls both influences of a pair are >= 0 and at most one is
\* non-zero as long as morphState holds no non-zero value under one of the
\* pair's own target names.
C25_PairedFirstPattern ==
  [][ /\ \A targetName \in CallNames, value \in CallValues :
           SetMorphValue(targetName, value) =>
             \A mesh \in RegisteredMorphed :
               FirstPatternSplit(morphTargetInfluences, morphTargetInfluences',
                                 mesh, targetName, value)
      /\ \A mesh \in RegisteredMorphed :
           \A pair \in PairsIn(MeshDictionary(mesh)) :
             NotDrivenAlone(morphState', pair) =>
               WellFormedPair(morphTargetInfluences', mesh, pair) ]_vars

\* The slider "nose" stands at -1: the body's -decr target is at 1 and its
\* -incr target at 0, the mesh with only -up/-down has -down at 1, and the
\* mesh with both pairs was driven on -incr/-decr only.
C25_Witness ==
  /\ IsRegistered(Human) /\ IsRegistered(Brows) /\ IsRegistered(Lashes)
  /\ \E i \in 1..Len(morphState) : morphState[i] = << <<"nose">>, -1 >>
  /\ InfluenceOf(morphTargetInfluences, Human, <<"nose", "-decr">>) = 1
  /\ InfluenceOf(morphTargetInfluences, Human, <<"nose", "-incr">>) = 0
  /\ InfluenceOf(morphTargetInfluences, Brows, <<"nose", "-down">>) = 1
  /\ InfluenceOf(morphTargetInfluences, Lashes, <<"nose", "-decr">>) = 1
  /\ InfluenceOf(morphTargetInfluences, Lashes, <<"nose", "-down">>) = 0
  /\ \E i \in 1..Len(morphState) : morphState[i] = << <<"lips">>, 1 >>
  /\ InfluenceOf(morphTargetInfluences, Human, <<"lips">>) = 1

(***************************************************************************)
(* The body mask (ModelViewer.tsx, applyBodyMask).  Vertices and bones are *)
(* numbered from 0 as in the buffers; a skin weight is counted in          *)
(* hundredths.  A bone name is <<prefix, name>>, the string prefix + name. *)
(* drawRange is <<>> while the geometry has its default range and          *)
(* <<start, count>> after setDrawRange.                                    *)
(***************************************************************************)
WEIGHT_THRESHOLD == 1

\* skeleton.bones[i].name
SkeletonBones ==
  << <<"mixamorig", "Hips">>, <<"mixamorig", "Spine">>,
     <<"mixamorig:", "Neck">>, <<"mixamorig:", "LeftFoot">> >>

\* skinIndex and skinWeight of the body's vertices: a vertex on the spine, one
\* shared by spine and neck, one shared by hips and foot, one without
\* weights, one on the spine with a neck weight at the threshold.
BodySkinIndex ==
  << <<1, 0, 0, 0>>, <<1, 2, 0, 0>>, <<0, 3, 0, 0>>, <<0, 0, 0, 0>>, <<1, 2, 0, 0>> >>

BodySkinWeight ==
  << <<100, 0, 0, 0>>, <<50, 50, 0, 0>>, <<60, 40, 0, 0>>, <<0, 0, 0, 0>>,
     <<99, 1, 0, 0>> >>

\* meshName.toLowerCase() on the mesh names of the clothing GLBs
ToLowerCase(meshName) ==
  CASE meshName = "Sweater" -> "sweater" [] meshName = "Tshirt" -> "tshirt"
    [] meshName = "Pants" -> "pants" [] meshName = "Boots" -> "boots"
    [] OTHER -> meshName

\* CLOTHING_BONE_COVERAGE[key]
CLOTHING_BONE_COVERAGE(key) ==
  CASE key = "sweater" ->
         <<"Spine", "Spine1", "Spine2", "LeftShoulder", "RightShoulder">>
    [] key = "tshirt" ->
         <<"Spine", "Spine1", "Spine2", "LeftShoulder", "RightShoulder">>
    [] key = "pants" -> <<"Hips", "LeftUpLeg", "RightUpLeg">>
    [] key = "boots" -> <<"LeftFoot", "RightFoot", "LeftToeBase", "RightToeBase">>
    [] OTHER -> Undefined

\* boneNameToIdx.get(name) !== undefined
HasBone(bones, name) == \E i \in 1..Len(bones) : bones[i] = name

\* boneNameToIdx.get(name): the last bone of that name
BoneNameToIdx(bones, name) ==
  (CHOOSE i \in 1..Len(bones) :
     bones[i] = name /\ \A j \in (i + 1)..Len(bones) : bones[j] # name) - 1

\* The loop over the prefixes "mixamorig:", "mixamorig": the indices added
\* to hideBoneIndices for one bone name of a coverage list.
PrefixedBone(bones, boneName) ==
  IF HasBone(bones, <<"mixamorig:", boneName>>)
  THEN {BoneNameToIdx(bones, <<"mixamorig:", boneName>>)}
  ELSE IF HasBone(bones, <<"mixamorig", boneName>>)
       THEN {BoneNameToIdx(bones, <<"mixamorig", boneName>>)}
       ELSE {}

\* The bones of one equipped mesh name; none without a coverage entry.
CoverageBones(bones, meshName) ==
  IF CLOTHING_BONE_COVERAGE(ToLowerCase(meshName)) = Undefined THEN {}
  ELSE UNION { PrefixedBone(bones, CLOTHING_BONE_COVERAGE(ToLowerCase(meshName))[k]) :
                 k \in 1..Len(CLOTHING_BONE_COVERAGE(ToLowerCase(meshName))) }

HideBoneIndices(bones, equipped) ==
  UNION { CoverageBones(bones, equipped[i]) : i \in 1..Len(equipped) }

\* hideVertex[v] = 1: some weight above the threshold, and every bone with
\* such a weight is in the hide set.
HideVertex(v, hideBoneIndices) ==
  /\ \E j \in 1..4 : BodySkinWeight[v + 1][j] > WEIGHT_THRESHOLD
  /\ \A j \in 1..4 :
       BodySkinWeight[v + 1][j] > WEIGHT_THRESHOLD =>
         BodySkinIndex[v + 1][j] \in hideBoneIndices

\* hideVertex[a] as a condition: undefined past the vertex count
IsHiddenVertex(a, hideBoneIndices) ==
  a + 1 \in 1..Len(BodySkinIndex) /\ HideVertex(a, hideBoneIndices)

\* The index array the faces are read from.
MaskSourceCurrent(origIndex, array) == array

MaskSource(origIndex, array) == origIndex

\* The loop over the faces: the indices written to the front of the array.
RECURSIVE WrittenFaces(_, _, _)
WrittenFaces(source, hideBoneIndices, f) ==
  IF 3 * f + 3 > Len(source) THEN <<>>
  ELSE (IF /\ IsHiddenVertex(source[3 * f + 1], hideBoneIndices)
           /\ IsHiddenVertex(source[3 * f + 2], hideBoneIndices)
           /\ IsHiddenVertex(source[3 * f + 3], hideBoneIndices)
        THEN <<>>
        ELSE SubSeq(source, 3 * f + 1, 3 * f + 3))
       \o WrittenFaces(source, hideBoneIndices, f + 1)

\* The array after the kept faces were written and the rest was filled
\* with 0 up to origIndex.length.
MaskedArray(array, written, length) ==
  [ i \in 1..Len(array) |->
      IF i <= Len(written) THEN written[i]
      ELSE IF i <= length THEN 0 ELSE array[i] ]

\* applyBodyMask(): <<index array, draw range>> afterwards.  Without a saved
\* index nothing happens.
applyBodyMask(origIndex, array, range, equipped, written) ==
  IF origIndex = JNull THEN <<array, range>>
  ELSE << MaskedArray(array, written, Len(origIndex)),
          <<0, 3 * ((Len(origIndex) \div 3) - ((Len(origIndex) - Len(written)) \div 3))>> >>

\* applyBodyMask() on the state of the viewer.
BodyMask(origIndex, array, range, equipped) ==
  applyBodyMask(origIndex, array, range, equipped,
    IF origIndex = JNull THEN <<>>
    ELSE WrittenFaces(MaskSource(origIndex, array),
                      HideBoneIndices(SkeletonBones, equipped), 0))

(***************************************************************************)
(* The mask on its own: a body whose index buffer is any sequence of up to *)
(* MaxFaces triangles over its vertices, and any sequence of outfits       *)
(* settling one after the other.                                           *)
(***************************************************************************)
MaxFaces == 3

Triangles ==
  { <<a, b, c>> : a \in 0..2, b \in 1..3, c \in 2..4 } \cap
  { t \in (0..4) \X (0..4) \X (0..4) : t[1] < t[2] /\ t[2] < t[3] }

RECURSIVE FlattenFaces(_)
FlattenFaces(faces) ==
  IF faces = <<>> THEN <<>> ELSE faces[1] \o FlattenFaces(Tail(faces))

IndexBuffers ==
  { FlattenFaces(faces) : faces \in UNION { [1..n -> Triangles] : n \in 1..MaxFaces } }

\* The mesh names of the clothing that can be equipped; a scarf has no
\* coverage entry.
EquippedNames ==
  { <<"Sweater", "Pants">>, <<"Tshirt", "Pants", "Boots">>, <<"Boots">>,
    <<"Scarf">>, <<"Pants", "Sweater", "Boots">> }

InitMask ==
  /\ GlbIdle
  /\ morphTargetDictionary = <<>>
  /\ categories = <<>>
  /\ MorphIdle
  /\ indexArray \in IndexBuffers
  /\ originalIndexRef = indexArray
  /\ drawRange = <<>>
  /\ equippedMeshNamesRef = <<>>
  /\ ClothingIdle
  /\ AnimIdle

\* onItemLoaded when the last item of a load has settled: the mesh names of
\* the load become the equipped ones and the mask is applied.
AllItemsLoaded(clothingMeshNames) ==
  /\ equippedMeshNamesRef' = clothingMeshNames
  /\ indexArray' =
       BodyMask(originalIndexRef, indexArray, drawRange, clothingMeshNames)[1]
  /\ drawRange' =
       BodyMask(originalIndexRef, indexArray, drawRange, clothingMeshNames)[2]
  /\ UNCHANGED originalIndexRef

OutfitSettled ==
  \E names \in EquippedNames :
    /\ AllItemsLoaded(names)
    /\ UNCHANGED <<glbVars, sliderVars, morphVars, clothingVars, animVars>>

NextMask == OutfitSettled

SpecMask == InitMask /\ [][NextMask]_vars

\* The faces of an index buffer, one triple per face.
FacesOf(index) ==
  [ f \in 1..(Len(index) \div 3) |-> SubSeq(index, 3 * f - 2, 3 * f) ]

\* A vertex is hidden iff it has a bone weight above 0.01 and every bone
\* with such a weight is covered.
HiddenByCoverage(v, covered) ==
  /\ \E j \in 1..4 : BodySkinWeight[v + 1][j] > 1
  /\ \A j \in 1..4 : BodySkinWeight[v + 1][j] > 1 => BodySkinIndex[v + 1][j] \in covered

\* The faces that are not dropped, in their original order.
KeptFacesOf(index, covered) ==
  SelectSeq(FacesOf(index), LAMBDA t :
    ~(/\ HiddenByCoverage(t[1], covered)
      /\ HiddenByCoverage(t[2], covered)
      /\ HiddenByCoverage(t[3], covered)))

MaskedAsFresh(original, array, range, equipped) ==
  /\ SubSeq(array, 1, 3 * Len(KeptFacesOf(original, HideBoneIndices(SkeletonBones, equipped)))) =
       FlattenFaces(KeptFacesOf(original, HideBoneIndices(SkeletonBones, equipped)))
  /\ range = <<0, 3 * Len(KeptFacesOf(original, HideBoneIndices(SkeletonBones, equipped)))>>

MaxLoads == 2

Outfits == { <<"Sweater", "Boots">>, <<"Tshirt", "Pants", "Boots">> }

\* The index buffer of the body GLB.
BodyIndex == <<0, 1, 2, 0, 2, 4, 2, 3, 4>>

GroupOf(n) == <<"group", n>>
SceneOf(item, n) == <<"scene", item, n>>
MeshOf(item, n) == <<"mesh", item, n>>

\* The local variables of a call: loadedCount, clothingMeshNames, and the
\* items whose fetch has not settled.
NewLoad(items) ==
  [ items |-> items, loadedCount |-> 0, clothingMeshNames |-> <<>>,
    pending |-> 1..Len(items) ]

\* model.remove(clothingGroupRef.current); model.add(clothingGroup)
Regrouped(parents, groupRef, n) ==
  (GroupOf(n) :> Model) @@
  [ o \in DOMAIN parents |-> IF o = groupRef THEN JNull ELSE parents[o] ]

\* loadClothingGLBs(items) up to the start of the fetches, on a loaded model
loadClothingGLBs(items, parents) ==
  /\ loads' = Append(loads, NewLoad(items))
  /\ clothingGroupRef' = GroupOf(Len(loads) + 1)
  /\ parent' = Regrouped(parents, clothingGroupRef, Len(loads) + 1)
  /\ loadedClothingRef' = items

\* The meshes of the parsed body below the model.
BodyParents == [ mesh \in { BodyMeshes[i] : i \in 1..Len(BodyMeshes) } |-> Model ]

BodyInfluences ==
  [ mesh \in { MorphedOf(BodyMeshes)[i] : i \in 1..Len(MorphedOf(BodyMeshes)) }
      |-> ZeroInfluences(mesh) ]

\* The app is mounted and loadGLBModel is running; the clothing assets of
\* the first outfit may have been downloaded before it started.
InitViewer ==
  /\ GlbIdle
  /\ SliderIdle
  /\ MorphIdle
  /\ originalIndexRef = JNull
  /\ indexArray = BodyIndex
  /\ drawRange = <<>>
  /\ equippedMeshNamesRef = <<>>
  /\ modelRef = JNull
  /\ clothingItems \in {<<>>} \cup Outfits
  /\ modelLoadItems = clothingItems
  /\ loadedClothingRef = <<>>
  /\ clothingGroupRef = JNull
  /\ loads = <<>>
  /\ onClothingMeshesLoaded = morphState
  /\ AnimIdle

\* The parse callback of loadGLBModel: the body is in the scene, its index
\* is saved, onModelLoaded runs initFromScene, and the clothing that
\* loadGLBModel closed over is loaded.
ModelLoaded ==
  /\ modelRef = JNull
  /\ modelRef' = Model
  /\ originalIndexRef' = indexArray
  /\ morphTargetInfluences' = BodyInfluences
  /\ initFromScene(BodyMeshes)
  /\ IF Len(modelLoadItems) > 0
     THEN loadClothingGLBs(modelLoadItems, BodyParents)
     ELSE /\ parent' = BodyParents
          /\ UNCHANGED <<loads, clothingGroupRef, loadedClothingRef>>
  /\ UNCHANGED <<glbVars, indexArray, drawRange, equippedMeshNamesRef,
                 clothingItems, modelLoadItems, onClothingMeshesLoaded, animVars>>

\* setClothingItems(items) in App and the clothingItems effect of ModelViewer
ClothingSelected ==
  \E items \in Outfits :
    /\ items # clothingItems
    /\ Len(loads) < MaxLoads
    /\ clothingItems' = items
    /\ IF modelRef # JNull /\ items # loadedClothingRef
       THEN loadClothingGLBs(items, parent)
       ELSE UNCHANGED <<loads, clothingGroupRef, parent, loadedClothingRef>>
    /\ UNCHANGED <<glbVars, sliderVars, morphState, meshesRef, morphTargetInfluences,
                   maskVars, modelRef, modelLoadItems, onClothingMeshesLoaded,
                   animVars>>

\* onItemLoaded() of the n-th call for its i-th item; names are the
\* clothingMeshNames at that time.
onItemLoaded(n, i, names) ==
  /\ loads' = [ loads EXCEPT ![n] =
                  [ @ EXCEPT !.loadedCount = @ + 1,
                             !.clothingMeshNames = names,
                             !.pending = @ \ {i} ] ]
  /\ IF loads[n].loadedCount + 1 >= Len(loads[n].items)
     THEN AllItemsLoaded(names)
     ELSE UNCHANGED maskVars

\* handleClothingMeshesLoaded(meshes) as loadClothingGLBs holds it:
\* addMeshes(meshes), then syncMorphState() of the render it was made in.
handleClothingMeshesLoaded(meshes, influences, parents, registered) ==
  /\ meshesRef' = registered
  /\ morphTargetInfluences' =
       syncMorphState(
         [ mesh \in DOMAIN influences |->
             IF \E k \in 1..Len(meshes) : meshes[k] = mesh
             THEN ZeroInfluences(mesh) ELSE influences[mesh] ],
         registered, onClothingMeshesLoaded, 1)

\* The influences with those of a freshly parsed mesh: an array of zeros
\* for a mesh with morph targets.
WithParsed(influences, mesh) ==
  IF MeshDictionary(mesh) = Undefined THEN influences
  ELSE (mesh :> ZeroInfluences(mesh)) @@ influences

\* The parse callback of an item's GLB: the scene goes below the call's
\* group, the morphed meshes are reported, the mesh name is recorded.
ItemParsed(n, i, item, parents, influences) ==
  /\ parent' = parents
  /\ IF MeshDictionary(MeshOf(item, n)) # Undefined
     THEN handleClothingMeshesLoaded(<<MeshOf(item, n)>>, influences, parents,
            addMeshes(meshesRef, <<MeshOf(item, n)>>, influences, parents))
     ELSE UNCHANGED <<meshesRef, morphTargetInfluences>>
  /\ onItemLoaded(n, i, Append(loads[n].clothingMeshNames, item))

ItemLoaded ==
  \E n \in 1..Len(loads) : \E i \in loads[n].pending :
    /\ ItemParsed(n, i, loads[n].items[i],
         (SceneOf(loads[n].items[i], n) :> GroupOf(n)) @@
           (MeshOf(loads[n].items[i], n) :> SceneOf(loads[n].items[i], n)) @@ parent,
         WithParsed(morphTargetInfluences, MeshOf(loads[n].items[i], n)))
    /\ UNCHANGED <<glbVars, sliderVars, morphState, modelRef, clothingItems,
                   modelLoadItems, loadedClothingRef, clothingGroupRef,
                   onClothingMeshesLoaded, animVars>>

\* The fetch or the parse of an item failed: it is counted and nothing else.
ItemFailed ==
  \E n \in 1..Len(loads) : \E i \in loads[n].pending :
    /\ onItemLoaded(n, i, loads[n].clothingMeshNames)
    /\ UNCHANGED <<glbVars, sliderVars, morphVars, modelRef, clothingItems,
                   modelLoadItems, loadedClothingRef, clothingGroupRef,
                   onClothingMeshesLoaded, animVars>>

\* minimumValue and maximumValue of a slider, in steps
SliderValues(isPaired) == IF isPaired THEN {-1, 0, 1} ELSE {0, 1}

\* A slider of the panel is moved: onValueChange(name, value)
SliderMoved ==
  \E slot \in TargetSlots(categories) :
    \E value \in SliderValues(IsPairedTarget(TargetAt(categories, slot))) :
      SetMorphValue(TargetAt(categories, slot).name, value)

NextViewer ==
  ModelLoaded \/ ClothingSelected \/ ItemLoaded \/ ItemFailed \/ SliderMoved
    \/ ResetAll

SpecViewer == InitViewer /\ [][NextViewer]_vars

\* The influences of the mesh are what the morphState asks for: for every
\* key, the pair of that base split into max(0, v) and max(0, -v), or the
\* solo target of that name at v.
AgreesWithState(influences, mesh, state) ==
  \A k \in 1..Len(state) :
    IF BothIn(MeshDictionary(mesh), state[k][1], 1)
    THEN PairSplit(influences, mesh, state[k][1], state[k][2], 1)
    ELSE IF BothIn(MeshDictionary(mesh), state[k][1], 2)
    THEN PairSplit(influences, mesh, state[k][1], state[k][2], 2)
    ELSE HasTarget(MeshDictionary(mesh), state[k][1]) =>
           InfluenceOf(influences, mesh, state[k][1]) = state[k][2]

\* C23: a clothing load that ends in handleClothingMeshesLoaded leaves every
\* newly registered mesh with influences that agree with the current
\* morphState, whenever the sliders were moved.
C23_NewMeshesSynced ==
  [][ \A mesh \in DOMAIN morphTargetInfluences' :
        /\ \E k \in 1..Len(meshesRef') : meshesRef'[k] = mesh
        /\ ~IsRegistered(mesh)
        => AgreesWithState(morphTargetInfluences', mesh, morphState') ]_vars

\* The slider "nose" stands at 1 and the sweater of the latest load is
\* registered and in the scene with its nose-incr influence at 0.
C23_FlatClothing ==
  /\ loads # <<>>
  /\ \E k \in 1..Len(morphState) : morphState[k] = << <<"nose">>, 1 >>
  /\ IsRegistered(MeshOf("Sweater", Len(loads)))
  /\ clothingGroupRef = GroupOf(Len(loads))
  /\ InfluenceOf(morphTargetInfluences, Human, <<"nose", "-incr">>) = 1
  /\ InfluenceOf(morphTargetInfluences, MeshOf("Sweater", Len(loads)),
                 <<"nose", "-incr">>) = 0

\* The object is in the scene graph of the model.
RECURSIVE InScene(_, _)
InScene(parents, o) ==
  \/ o = Model
  \/ /\ o \in DOMAIN parents
     /\ parents[o] # JNull
     /\ InScene(parents, parents[o])

\* The step registers clothing meshes: addMeshes ran on a loaded model.
Registers == modelRef # JNull /\ meshesRef' # meshesRef

\* Only the latest call of loadClothingGLBs has items in flight.
OneLoadInFlight ==
  \A n \in 1..Len(loads) : loads[n].pending # {} => n = Len(loads)

\* The first half of C24: after addMeshes the list is the registered meshes
\* whose parent is not null, in their order, followed by the new meshes that
\* have a dictionary and influences.
C24_ListEquation ==
  [][ Registers =>
        \E n \in 1..Len(loads) : \E i \in loads[n].pending :
          meshesRef' =
            SelectSeq(meshesRef, LAMBDA mesh : parent'[mesh] # JNull)
              \o (IF ItemDictionary(loads[n].items[i]) # Undefined
                  THEN <<MeshOf(loads[n].items[i], n)>> ELSE <<>>) ]_vars

\* C24: when the old clothing group was detached before the new meshes are
\* registered, the list after addMeshes is the registered meshes with a
\* parent followed by the new morphed meshes, and it holds no mesh that is
\* detached from the scene.
C24_NoStaleMesh ==
  [][ Registers /\ OneLoadInFlight =>
        /\ \E n \in 1..Len(loads) : \E i \in loads[n].pending :
             meshesRef' =
               SelectSeq(meshesRef, LAMBDA mesh : parent'[mesh] # JNull)
                 \o (IF ItemDictionary(loads[n].items[i]) # Undefined
                     THEN <<MeshOf(loads[n].items[i], n)>> ELSE <<>>)
        /\ \A k \in 1..Len(meshesRef') : InScene(parent', meshesRef'[k]) ]_vars

\* Two outfits were loaded one after the other and both have settled: the
\* sweater of the first one is still registered, below a group that is no
\* longer in the scene, next to the meshes of the second one.
C24_StaleRegistered ==
  /\ Len(loads) = 2
  /\ \A n \in 1..2 : loads[n].pending = {}
  /\ loads[1].items = <<"Sweater", "Boots">>
  /\ IsRegistered(MeshOf("Sweater", 1))
  /\ parent[MeshOf("Sweater", 1)] = SceneOf("Sweater", 1)
  /\ parent[GroupOf(1)] = JNull
  /\ ~InScene(parent, MeshOf("Sweater", 1))
  /\ IsRegistered(MeshOf("Tshirt", 2))
  /\ IsRegistered(MeshOf("Pants", 2))
  /\ Len(meshesRef) = 6

\* No fetch or parse of any call of loadClothingGLBs is outstanding.
LoadsSettled ==
  /\ modelRef # JNull
  /\ loads # <<>>
  /\ \A n \in 1..Len(loads) : loads[n].pending = {}

\* The items of the sequence, as a set.
ItemsOf(items) == { items[k] : k \in 1..Len(items) }

\* The equipped mesh names are those recorded by the latest call, which
\* loaded the clothingItems requested last.
EquippedLatest ==
  /\ loads[Len(loads)].items = clothingItems
  /\ equippedMeshNamesRef = loads[Len(loads)].clothingMeshNames
  /\ ItemsOf(equippedMeshNamesRef) \subseteq ItemsOf(clothingItems)

\* The clothing meshes reported to the morph hook are those of the latest
\* call.
ReportedLatest ==
  \A k \in 1..Len(meshesRef) :
    meshesRef[k][1] = "mesh" => meshesRef[k][3] = Len(loads)

\* The only clothing group below the model is clothingGroupRef, created by
\* the latest call, and the scenes below it are scenes of that call's items.
GroupLatest ==
  /\ clothingGroupRef = GroupOf(Len(loads))
  /\ \A n \in 1..Len(loads) :
       parent[GroupOf(n)] = Model <=> n = Len(loads)
  /\ \A o \in DOMAIN parent :
       parent[o] = clothingGroupRef =>
         \E k \in 1..Len(clothingItems) : o = SceneOf(clothingItems[k], Len(loads))

\* The attached group holds the latest call's scenes once the loads have
\* settled.
C28_GroupLatest ==
  LoadsSettled /\ loads[Len(loads)].items = clothingItems => GroupLatest

\* The equipped names are written, and the mask is applied, only by the
\* step in which the last item of a call settles, with that call's names.
C28_MaskOncePerLoad ==
  [][ /\ equippedMeshNamesRef' # equippedMeshNamesRef
           => \E n \in 1..Len(loads) :
                /\ loads[n].pending # {}
                /\ loads'[n].pending = {}
                /\ equippedMeshNamesRef' = loads'[n].clothingMeshNames
      /\ \A n \in 1..Len(loads) :
           loads[n].pending # {} /\ loads'[n].pending = {}
             => /\ equippedMeshNamesRef' = loads'[n].clothingMeshNames
                /\ BodyMask(originalIndexRef, indexArray, drawRange, equippedMeshNamesRef')
                     = <<indexArray', drawRange'>> ]_vars

\* The equipped names alone: once settled they are the latest call's.
C28_EquippedLatest ==
  LoadsSettled /\ loads[Len(loads)].items = clothingItems => EquippedLatest

\* C28: once all loads have settled, the equipped mesh names used by
\* applyBodyMask, the meshes reported through onClothingMeshesLoaded and the
\* contents of the attached clothing group are those of the most recently
\* requested clothingItems only, whatever the order of the completions.
C28_LatestWins ==
  LoadsSettled => EquippedLatest /\ ReportedLatest /\ GroupLatest

\* The first outfit's last item settled after the second outfit's: the body
\* is masked for the sweater and the boots while the T-shirt and the pants
\* are in the scene.
C28_SupersededWins ==
  /\ LoadsSettled
  /\ Len(loads) = 2
  /\ clothingItems = <<"Tshirt", "Pants", "Boots">>
  /\ loads[2].items = clothingItems
  /\ ItemsOf(loads[2].clothingMeshNames) = {"Tshirt", "Pants", "Boots"}
  /\ GroupLatest
  /\ ItemsOf(equippedMeshNamesRef) = {"Sweater", "Boots"}
  /\ BodyMask(originalIndexRef, indexArray, drawRange, equippedMeshNamesRef) = <<indexArray, drawRange>>
  /\ BodyMask(originalIndexRef, indexArray, drawRange, loads[2].clothingMeshNames) # <<indexArray, drawRange>>

(***************************************************************************)
(* Animation selection (App.tsx, handleAnimationSelect; ModelViewer.tsx,   *)
(* the currentAnimation effect).  An animation is named by its id and null *)
(* is the string "null".  currentAnimation is App's state (the id selected *)
(* last), animationDef is the ModelViewer prop, named by the id of its     *)
(* {id, glbUri}.  downloads holds the ids whose asset.downloadAsync() is   *)
(* outstanding, fetches the ids of the effect runs whose fetch and parse   *)
(* are outstanding; an action or a clip is named by the id it was made     *)
(* for.  The mixer exists once the body model is loaded.  The error        *)
(* callbacks of the download, the fetch and the parse only log.            *)
(***************************************************************************)
MaxPending == 2

\* ids of ANIMATION_LIST
AnimationIds == {"idle", "cheer"}

\* The sequence without its k-th element.
Settle(pending, k) ==
  SubSeq(pending, 1, k - 1) \o SubSeq(pending, k + 1, Len(pending))

\* playClip(clip) of the effect run for the id
playClip(id) ==
  /\ currentActionRef' = id
  /\ currentAnimIdRef' = id

\* The effect of ModelViewer for the prop, up to the start of its fetch;
\* pending are the fetches of the earlier runs.
AnimationEffect(def, pending) ==
  IF modelRef = JNull
  THEN /\ fetches' = pending
       /\ UNCHANGED <<currentActionRef, currentAnimIdRef>>
  ELSE IF def = "null"
  THEN /\ fetches' = pending
       /\ IF currentActionRef # "null"
          THEN currentActionRef' = "null" /\ currentAnimIdRef' = "null"
          ELSE UNCHANGED <<currentActionRef, currentAnimIdRef>>
  ELSE IF currentAnimIdRef = def
  THEN /\ fetches' = pending
       /\ UNCHANGED <<currentActionRef, currentAnimIdRef>>
  ELSE IF def \in animClipsRef
  THEN /\ fetches' = pending
       /\ playClip(def)
  ELSE /\ fetches' = Append(pending, def)
       /\ UNCHANGED <<currentActionRef, currentAnimIdRef>>

\* The app is mounted, the body model is loading, no clothing is selected.
InitAnim ==
  /\ InitViewer
  /\ clothingItems = <<>>

\* handleAnimationSelect(null): both states are cleared, and the effect
\* runs when the prop changed.
AnimationStopped ==
  /\ currentAnimation' = "null"
  /\ animationDef' = "null"
  /\ IF animationDef # "null"
     THEN AnimationEffect("null", fetches)
     ELSE UNCHANGED <<fetches, currentActionRef, currentAnimIdRef>>
  /\ UNCHANGED <<downloads, animClipsRef>>
  /\ UNCHANGED <<glbVars, sliderVars, morphVars, maskVars, clothingVars>>

\* handleAnimationSelect(animId) up to its await
AnimationSelected ==
  \E animId \in AnimationIds :
    /\ Len(downloads) + Len(fetches) < MaxPending
    /\ currentAnimation' = animId
    /\ downloads' = Append(downloads, animId)
    /\ UNCHANGED <<animationDef, fetches, currentActionRef, currentAnimIdRef,
                   animClipsRef>>
    /\ UNCHANGED <<glbVars, sliderVars, morphVars, maskVars, clothingVars>>

\* asset.downloadAsync() resolved: setAnimationDef({id, glbUri}) gives a new
\* prop and the effect runs for it.
DownloadDone ==
  \E k \in 1..Len(downloads) :
    /\ downloads' = Settle(downloads, k)
    /\ animationDef' = downloads[k]
    /\ AnimationEffect(downloads[k], fetches)
    /\ UNCHANGED <<currentAnimation, animClipsRef>>
    /\ UNCHANGED <<glbVars, sliderVars, morphVars, maskVars, clothingVars>>

\* The parse callback of an effect run: the clip is cached and, unless the
\* id is the one recorded as playing, played.
FetchParsed ==
  \E k \in 1..Len(fetches) :
    /\ fetches' = Settle(fetches, k)
    /\ animClipsRef' = animClipsRef \cup {fetches[k]}
    /\ IF fetches[k] = currentAnimIdRef
       THEN UNCHANGED <<currentActionRef, currentAnimIdRef>>
       ELSE playClip(fetches[k])
    /\ UNCHANGED <<currentAnimation, animationDef, downloads>>
    /\ UNCHANGED <<glbVars, sliderVars, morphVars, maskVars, clothingVars>>

NextAnim ==
  ModelLoaded \/ AnimationStopped \/ AnimationSelected \/ DownloadDone
    \/ FetchParsed

SpecAnim == InitAnim /\ [][NextAnim]_vars

\* The mixer exists, and no download, fetch or parse is outstanding.
AnimationsSettled ==
  /\ modelRef # JNull
  /\ downloads = <<>>
  /\ fetches = <<>>

\* After a stop, once settled, nothing is recorded as playing.
C29_StopWins ==
  AnimationsSettled /\ currentAnimation = "null"
    => currentActionRef = "null" /\ currentAnimIdRef = "null"

\* C29: once all pending loads have settled, the animation recorded as
\* playing in currentAnimIdRef and currentActionRef is the one selected
\* last, or none if the last selection was null, whatever the order of the
\* download and fetch completions.
C29_LatestWins ==
  AnimationsSettled =>
    /\ currentAnimIdRef = currentAnimation
    /\ currentActionRef = currentAnimation

\* "cheer" was selected last and its clip was fetched and parsed, and the
\* clip recorded as playing is the one of "idle", selected before it.
C29_EarlierPlays ==
  /\ AnimationsSettled
  /\ currentAnimation = "cheer"
  /\ animClipsRef = {"idle", "cheer"}
  /\ currentAnimIdRef = "idle"
  /\ currentActionRef = "idle"

====
